---------------------------- MODULE Spec2Model ----------------------------
(***************************************************************************)
(* A model of src/app.py, the contact-list cleaner "Cleanr".               *)
(*                                                                         *)
(* Text is modelled as a sequence of one-character strings, so that the    *)
(* string operations of the program (strip, lower, title, split, the       *)
(* regular expressions) are computed character by character as Python     *)
(* computes them.  A missing cell of the table (pandas NaN) is the value   *)
(* NaN, which is not a text.                                               *)
(***************************************************************************)
EXTENDS Naturals, Integers, Sequences, FiniteSets, TLC

VARIABLES
    \* --- the state of one run of the pipeline (clean_data and the module body)
    df,                       \* the uploaded table: a sequence of rows
    options,                  \* the options dictionary passed to clean_data
    cleaned_df,               \* the cleaned table
    changed_mask,             \* per (row, column) changed flag
    changes,                  \* the counter `changes` of clean_data
    stage,                    \* where the run is
    cursor,                   \* the row the current loop is at
    company_patterns,         \* the map built by analyze_company_email_patterns
    quality_scores,           \* the list quality_scores
    pattern_match_info,       \* the list pattern_match_info
    email_validation_results, \* the list email_validation_results
    percent_cleaned,          \* the percentage clean_data returns, as << numerator, denominator >>
    \* --- the module-level state
    company_dict,             \* the CompanyDirectory
    EMAIL_VALIDATOR_AVAILABLE, \* whether email_validator was imported
    PHONENUMBERS_AVAILABLE,   \* whether phonenumbers was imported
    \* --- one call of a function of the module on drawn arguments
    args,                     \* the arguments of the call
    call,                     \* the function called, "none" before the call
    ncalls,                   \* how many times it has been applied: 0, 1 or 2
    ret,                      \* what the call returned
    ret2                      \* what calling it again on its result returned

vars == << df, options, cleaned_df, changed_mask, changes, stage, cursor,
           company_patterns, quality_scores, pattern_match_info,
           email_validation_results, percent_cleaned, company_dict, EMAIL_VALIDATOR_AVAILABLE,
           PHONENUMBERS_AVAILABLE, args, call, ncalls, ret, ret2 >>

pipeline_vars == << df, options, cleaned_df, changed_mask, changes, stage, cursor,
                    company_patterns, quality_scores, pattern_match_info,
                    email_validation_results, percent_cleaned >>

call_vars == << args, call, ncalls, ret, ret2 >>

module_vars == << company_dict, EMAIL_VALIDATOR_AVAILABLE, PHONENUMBERS_AVAILABLE >>

-----------------------------------------------------------------------------
(* Characters *)

Lowers == << "a","b","c","d","e","f","g","h","i","j","k","l","m",
             "n","o","p","q","r","s","t","u","v","w","x","y","z" >>
Uppers == << "A","B","C","D","E","F","G","H","I","J","K","L","M",
             "N","O","P","Q","R","S","T","U","V","W","X","Y","Z" >>
Digits == { "0","1","2","3","4","5","6","7","8","9" }

LowerSet == { Lowers[k] : k \in DOMAIN Lowers }
UpperSet == { Uppers[k] : k \in DOMAIN Uppers }

\* The non-ASCII characters of the model: e-acute, and the two characters
\* that e-acute becomes when its UTF-8 bytes C3 A9 are read as latin-1.
EAcute == "U+00E9"
ATilde == "U+00C3"
CopyrightSign == "U+00A9"
NonAscii == { EAcute, ATilde, CopyrightSign }

IsLowerChar(c) == c \in LowerSet
IsUpperChar(c) == c \in UpperSet
IsAsciiLetter(c) == IsLowerChar(c) \/ IsUpperChar(c)
IsDigit(c) == c \in Digits
IsSpace(c) == c = " "
\* \w of the re module on text that unidecode has made ASCII
IsWordChar(c) == IsAsciiLetter(c) \/ IsDigit(c) \/ c = "_"

LowerOf == [c \in UpperSet |-> Lowers[CHOOSE k \in DOMAIN Uppers : Uppers[k] = c]]
UpperOf == [c \in LowerSet |-> Uppers[CHOOSE k \in DOMAIN Lowers : Lowers[k] = c]]

ToLower(c) == IF IsUpperChar(c) THEN LowerOf[c] ELSE c
ToUpper(c) == IF IsLowerChar(c) THEN UpperOf[c] ELSE c

-----------------------------------------------------------------------------
(* Python's str methods *)

NaN == << "NaN" >>

\* Python's None
None == << "None" >>
pd_isna(v) == v = NaN

\* str(v): a text is itself, the float nan prints as 'nan'
str(v) == IF pd_isna(v) THEN << "n", "a", "n" >> ELSE v

\* bool(v): every non-empty text is true, and so is the float nan
truthy(v) == v # << >>

lower(s) == [k \in DOMAIN s |-> ToLower(s[k])]
upper(s) == [k \in DOMAIN s |-> ToUpper(s[k])]

\* str.title(): a letter is upper-cased when the character before it is not a
\* letter, and lower-cased otherwise
title(s) ==
    [k \in DOMAIN s |->
        IF k > 1 /\ IsAsciiLetter(s[k - 1]) THEN ToLower(s[k]) ELSE ToUpper(s[k])]

RECURSIVE lstrip(_)
lstrip(s) == IF s # << >> /\ IsSpace(Head(s)) THEN lstrip(Tail(s)) ELSE s

RECURSIVE rstrip(_)
rstrip(s) ==
    IF s # << >> /\ IsSpace(s[Len(s)]) THEN rstrip(SubSeq(s, 1, Len(s) - 1)) ELSE s

strip(s) == rstrip(lstrip(s))

\* str.split(): the maximal runs of non-whitespace characters
RECURSIVE split_from(_, _, _)
split_from(s, k, word) ==
    IF k > Len(s)
    THEN IF word = << >> THEN << >> ELSE << word >>
    ELSE IF IsSpace(s[k])
         THEN IF word = << >> THEN split_from(s, k + 1, << >>)
                              ELSE << word >> \o split_from(s, k + 1, << >>)
         ELSE split_from(s, k + 1, Append(word, s[k]))

split(s) == split_from(s, 1, << >>)

\* sep.join(parts)
RECURSIVE join(_, _)
join(sep, parts) ==
    IF parts = << >> THEN << >>
    ELSE IF Len(parts) = 1 THEN parts[1]
    ELSE parts[1] \o sep \o join(sep, Tail(parts))

startswith(s, p) == Len(p) <= Len(s) /\ SubSeq(s, 1, Len(p)) = p

\* s.split(sep)[0] and s.split(sep)[1] for a one-character separator
IndexOf(s, c) ==
    IF \E k \in DOMAIN s : s[k] = c
    THEN CHOOSE k \in DOMAIN s : s[k] = c /\ \A j \in 1..(k - 1) : s[j] # c
    ELSE 0

before_sep(s, c) == IF IndexOf(s, c) = 0 THEN s ELSE SubSeq(s, 1, IndexOf(s, c) - 1)

after_first_sep(s, c) == SubSeq(s, IndexOf(s, c) + 1, Len(s))

-----------------------------------------------------------------------------
(* Text repair: the latin-1/UTF-8 round trip, ftfy.fix_text and unidecode, on
   the characters of the model *)

\* name.encode('latin1').decode('utf-8'): the bytes C3 A9 decode to e-acute;
\* any other non-ASCII byte of the model's characters is an invalid UTF-8
\* sequence, the decode raises and the caller keeps the text unchanged.
RECURSIVE utf8_valid(_)
utf8_valid(s) ==
    IF s = << >> THEN TRUE
    ELSE IF Head(s) \notin NonAscii THEN utf8_valid(Tail(s))
    ELSE /\ Len(s) >= 2
         /\ s[1] = ATilde
         /\ s[2] = CopyrightSign
         /\ utf8_valid(Tail(Tail(s)))

RECURSIVE merge_mojibake(_)
merge_mojibake(s) ==
    IF s = << >> THEN << >>
    ELSE IF Len(s) >= 2 /\ s[1] = ATilde /\ s[2] = CopyrightSign
         THEN << EAcute >> \o merge_mojibake(Tail(Tail(s)))
         ELSE << Head(s) >> \o merge_mojibake(Tail(s))

latin1_to_utf8(s) == IF utf8_valid(s) THEN merge_mojibake(s) ELSE s

\* ftfy.fix_text: repairs the mojibake pair wherever it stands, leaves ASCII alone
fix_text(s) == merge_mojibake(s)

\* unidecode: the closest ASCII text of every character
unidecode_char(c) ==
    IF c = EAcute THEN << "e" >>
    ELSE IF c = ATilde THEN << "A" >>
    ELSE IF c = CopyrightSign THEN << "(", "c", ")" >>
    ELSE << c >>

RECURSIVE unidecode(_)
unidecode(s) == IF s = << >> THEN << >> ELSE unidecode_char(Head(s)) \o unidecode(Tail(s))

-----------------------------------------------------------------------------
(* clean_company *)

COMMON_SUFFIXES ==
    { << "l","t","d" >>, << "i","n","c" >>, << "g","r","o","u","p" >>,
      << "b","r","a","n","d","s" >>, << "c","o","m","p","a","n","y" >>,
      << "c","o","m","p","a","n","i","e","s" >>,
      << "i","n","c","o","r","p","o","r","a","t","i","o","n" >>,
      << "c","o","r","p","o","r","a","t","i","o","n" >> }

NullWords == { << "n","a","n" >>, << "n","o","n","e" >>, << "n","u","l","l" >>, << >> }

\* the end of the run of word characters that starts at k
RECURSIVE word_end(_, _)
word_end(s, k) == IF k < Len(s) /\ IsWordChar(s[k + 1]) THEN word_end(s, k + 1) ELSE k

\* re.sub(r'\b(?:ltd|inc|...)\b', '', s, flags=re.IGNORECASE): between two word
\* boundaries a match is a whole run of word characters, so the substitution
\* deletes every such run that is a suffix word, whatever its case
RECURSIVE remove_suffixes(_, _)
remove_suffixes(s, k) ==
    IF k > Len(s) THEN << >>
    ELSE IF IsWordChar(s[k])
         THEN LET e == word_end(s, k)
                  w == SubSeq(s, k, e)
              IN  (IF lower(w) \in COMMON_SUFFIXES THEN << >> ELSE w)
                  \o remove_suffixes(s, e + 1)
         ELSE << s[k] >> \o remove_suffixes(s, k + 1)

\* re.sub(r'[^A-Za-z0-9\s\-]', '', s)
IsCompanyChar(c) == IsAsciiLetter(c) \/ IsDigit(c) \/ IsSpace(c) \/ c = "-"
remove_special(s) == SelectSeq(s, IsCompanyChar)

\* re.sub(r'\s{2,}', ' ', s): a run of two or more spaces becomes one space
RECURSIVE collapse_spaces(_)
collapse_spaces(s) ==
    IF s = << >> THEN << >>
    ELSE IF Len(s) >= 2 /\ IsSpace(s[1]) /\ IsSpace(s[2])
         THEN collapse_spaces(Tail(s))
         ELSE << Head(s) >> \o collapse_spaces(Tail(s))

\* the branch of clean_company taken when the directory has no entry
clean_company_rules(name_str) ==
    LET repaired == unidecode(fix_text(latin1_to_utf8(name_str)))
        stripped == strip(collapse_spaces(remove_special(remove_suffixes(repaired, 1))))
    IN  IF stripped = << >> THEN << >>
        ELSE IF Len(stripped) <= 4 THEN upper(stripped) ELSE title(stripped)

\* clean_company looking the text up in the directory without lower-casing it
clean_company_case_sensitive_lookup(name) ==
    IF pd_isna(name) \/ name = << >> THEN << >>
    ELSE LET name_str == strip(str(name))
         IN  IF lower(name_str) \in NullWords THEN << >>
             ELSE IF name_str \in DOMAIN company_dict THEN company_dict[name_str]
             ELSE clean_company_rules(name_str)

clean_company(name) ==
    IF pd_isna(name) \/ name = << >> THEN << >>
    ELSE LET name_str == strip(str(name))
             name_key == lower(name_str)
         IN  IF name_key \in NullWords THEN << >>
             ELSE IF name_key \in DOMAIN company_dict THEN company_dict[name_key]
             ELSE clean_company_rules(name_str)

-----------------------------------------------------------------------------
(* clean_first_name, clean_last_name *)

clean_first_name(name) ==
    IF pd_isna(name) THEN << >>
    ELSE LET repaired == strip(unidecode(fix_text(latin1_to_utf8(name))))
         IN  IF repaired = << >> THEN << >>
             ELSE title(split(repaired)[1])

\* one token of a last name: the Mc rule, else title case
clean_last_part(part) ==
    IF startswith(lower(part), << "m", "c" >>) /\ Len(part) > 2
    THEN << "M", "c" >> \o title(SubSeq(part, 3, Len(part)))
    ELSE title(part)

clean_last_name(name) ==
    IF pd_isna(name) THEN << >>
    ELSE LET repaired == strip(unidecode(fix_text(latin1_to_utf8(name))))
             parts == split(repaired)
         IN  IF repaired = << >> THEN << >>
             ELSE join(<< " " >>, [k \in DOMAIN parts |-> clean_last_part(parts[k])])

-----------------------------------------------------------------------------
(* infer_last_from_email *)

IsSeparator(c) == c \in { ".", "_", "-" }

\* the end of the run of letters a-z that starts at k
RECURSIVE letters_end(_, _)
letters_end(s, k) == IF k < Len(s) /\ IsLowerChar(s[k + 1]) THEN letters_end(s, k + 1) ELSE k

\* the same match with [a-z]+ taking one letter only
regex_last_name_one_letter(first_lower, user) ==
    LET n == Len(first_lower)
        from == IF n + 1 <= Len(user) /\ IsSeparator(user[n + 1]) THEN n + 2 ELSE n + 1
    IN  IF startswith(user, first_lower) /\ from <= Len(user) /\ IsLowerChar(user[from])
        THEN SubSeq(user, from, from)
        ELSE << >>

\* re.match(rf"{re.escape(first_lower)}[._-]?([a-z]+)", user): group 1 of the
\* match, or the empty text when there is no match.  The separator is tried
\* first and given up when no letter follows it; [a-z]+ is greedy.
regex_last_name(first_lower, user) ==
    LET n == Len(first_lower)
        from == IF n + 1 <= Len(user) /\ IsSeparator(user[n + 1]) THEN n + 2 ELSE n + 1
    IN  IF startswith(user, first_lower) /\ from <= Len(user) /\ IsLowerChar(user[from])
        THEN SubSeq(user, from, letters_end(user, from))
        ELSE << >>

infer_last_from_email(first_name, email) ==
    IF ~truthy(email) \/ pd_isna(email) \/ ~truthy(first_name) THEN << >>
    ELSE LET user == lower(before_sep(email, "@"))
             first_lower == lower(first_name)
             m == regex_last_name(first_lower, user)
         IN  IF m # << >> THEN title(m)
             ELSE IF startswith(user, << first_lower[1] >>) /\ Len(user) > 1
                  THEN title(SubSeq(user, 2, Len(user)))
                  ELSE << >>

-----------------------------------------------------------------------------
(* detect_email_pattern *)

\* what a call that raises TypeError gives back
TypeError == << "TypeError" >>

\* str(name).lower().strip() if name else ''
name_lower(name) == IF truthy(name) THEN strip(lower(str(name))) ELSE << >>

\* the same with the concatenated form tried before the separated ones
two_name_pattern_reordered(first_lower, last_lower, local_part) ==
    IF first_lower \o last_lower = local_part THEN "firstnamelastname"
    ELSE IF << first_lower[1] >> \o last_lower = local_part THEN "firstinitiallastname"
    ELSE IF << first_lower[1], "." >> \o last_lower = local_part THEN "firstinitial.lastname"
    ELSE IF last_lower \o << "_" >> \o first_lower = local_part THEN "lastname_firstname"
    ELSE IF last_lower \o << "." >> \o first_lower = local_part THEN "lastname.firstname"
    ELSE IF first_lower \o << "-" >> \o last_lower = local_part THEN "firstname-lastname"
    ELSE IF first_lower \o << "_" >> \o last_lower = local_part THEN "firstname_lastname"
    ELSE IF first_lower \o << "." >> \o last_lower = local_part THEN "firstname.lastname"
    ELSE "none"

\* the patterns built from both names, tried in this order
two_name_pattern(first_lower, last_lower, local_part) ==
    IF first_lower \o << "." >> \o last_lower = local_part THEN "firstname.lastname"
    ELSE IF first_lower \o << "_" >> \o last_lower = local_part THEN "firstname_lastname"
    ELSE IF first_lower \o << "-" >> \o last_lower = local_part THEN "firstname-lastname"
    ELSE IF first_lower \o last_lower = local_part THEN "firstnamelastname"
    ELSE IF << first_lower[1], "." >> \o last_lower = local_part THEN "firstinitial.lastname"
    ELSE IF << first_lower[1] >> \o last_lower = local_part THEN "firstinitiallastname"
    ELSE IF last_lower \o << "." >> \o first_lower = local_part THEN "lastname.firstname"
    ELSE IF last_lower \o << "_" >> \o first_lower = local_part THEN "lastname_firstname"
    ELSE "none"

detect_email_pattern(email, first_name, last_name) ==
    IF ~truthy(email) THEN "unknown"
    ELSE IF pd_isna(email) THEN TypeError   \* '@' not in email, on a float
    ELSE IF "@" \notin { email[k] : k \in DOMAIN email } THEN "unknown"
    ELSE LET local_part == before_sep(strip(lower(email)), "@")
             first_lower == name_lower(first_name)
             last_lower == name_lower(last_name)
             both == IF first_lower # << >> /\ last_lower # << >>
                     THEN two_name_pattern(first_lower, last_lower, local_part)
                     ELSE "none"
         IN  IF both # "none" THEN both
             ELSE IF first_lower # << >> /\ local_part = first_lower THEN "firstname"
             ELSE IF last_lower # << >> /\ local_part = last_lower THEN "lastname"
             ELSE IF \E k \in DOMAIN local_part : IsDigit(local_part[k]) THEN "with_numbers"
             ELSE "other"

-----------------------------------------------------------------------------
(* validate_email_format *)

DISPOSABLE_EMAIL_DOMAINS ==
    { << "1","0","m","i","n","u","t","e","m","a","i","l",".","c","o","m" >>,
      << "t","e","m","p","m","a","i","l",".","c","o","m" >>,
      << "g","u","e","r","r","i","l","l","a","m","a","i","l",".","c","o","m" >>,
      << "m","a","i","l","i","n","a","t","o","r",".","c","o","m" >>,
      << "t","h","r","o","w","a","w","a","y",".","e","m","a","i","l" >>,
      << "t","e","m","p","-","m","a","i","l",".","o","r","g" >>,
      << "g","e","t","n","a","d","a",".","c","o","m" >>,
      << "m","o","h","m","a","l",".","c","o","m" >> }

IsLocalChar(c) == IsAsciiLetter(c) \/ IsDigit(c) \/ c \in { ".", "_", "%", "+", "-" }
IsDomainChar(c) == IsAsciiLetter(c) \/ IsDigit(c) \/ c \in { ".", "-" }

last_index_of(s, c) ==
    IF \E k \in DOMAIN s : s[k] = c
    THEN CHOOSE k \in DOMAIN s : s[k] = c /\ \A j \in (k + 1)..Len(s) : s[j] # c
    ELSE 0

\* re.match(r'^[a-zA-Z0-9._%+-]+@[a-zA-Z0-9.-]+\.[a-zA-Z]{2,}$', s): a non-empty
\* local part, one '@', and a domain whose last dot has at least one domain
\* character before it and two or more letters, and nothing else, after it
matches_email_regex(s) ==
    LET at == IndexOf(s, "@")
        domain == SubSeq(s, at + 1, Len(s))
        dot == last_index_of(domain, ".")
    IN  /\ at >= 2
        /\ \A k \in 1..(at - 1) : IsLocalChar(s[k])
        /\ dot >= 2
        /\ \A k \in 1..(dot - 1) : IsDomainChar(domain[k])
        /\ Len(domain) - dot >= 2
        /\ \A k \in (dot + 1)..Len(domain) : IsAsciiLetter(domain[k])

\* the verdict of email_validator.validate_email on a text the regular
\* expression accepted: the library rejects a local part that is no dot-atom
\* (a leading, trailing or doubled dot)
email_validator_accepts(email_str) ==
    LET local == before_sep(email_str, "@")
    IN  /\ local[1] # "."
        /\ local[Len(local)] # "."
        /\ \A k \in 1..(Len(local) - 1) : ~(local[k] = "." /\ local[k + 1] = ".")

\* the same classification with the denylist consulted before the format
validate_email_format_denylist_first(email) ==
    IF ~truthy(email) \/ pd_isna(email) THEN << FALSE, "Missing" >>
    ELSE LET email_str == strip(str(email))
             email_lower == lower(email_str)
         IN  IF email_str = << >> THEN << FALSE, "Missing" >>
             ELSE IF after_first_sep(email_lower, "@") \in DISPOSABLE_EMAIL_DOMAINS
                  THEN << FALSE, "Disposable Email" >>
             ELSE IF ~matches_email_regex(email_lower) THEN << FALSE, "Invalid Format" >>
             ELSE IF EMAIL_VALIDATOR_AVAILABLE /\ ~email_validator_accepts(email_str)
                  THEN << FALSE, "Invalid Format" >>
             ELSE << TRUE, "Valid" >>

\* the pair (is_valid, status)
validate_email_format(email) ==
    IF ~truthy(email) \/ pd_isna(email) THEN << FALSE, "Missing" >>
    ELSE LET email_str == strip(str(email))
             email_lower == lower(email_str)
         IN  IF email_str = << >> THEN << FALSE, "Missing" >>
             ELSE IF ~matches_email_regex(email_lower) THEN << FALSE, "Invalid Format" >>
             ELSE IF after_first_sep(email_lower, "@") \in DISPOSABLE_EMAIL_DOMAINS
                  THEN << FALSE, "Disposable Email" >>
             ELSE IF EMAIL_VALIDATOR_AVAILABLE /\ ~email_validator_accepts(email_str)
                  THEN << FALSE, "Invalid Format" >>
             ELSE << TRUE, "Valid" >>

-----------------------------------------------------------------------------
(* clean_phone_number *)

IsPhoneChar(c) == IsDigit(c) \/ c = "+"

\* phonenumbers.parse and is_valid_number, for the North American numbers the
\* model draws: ten digits, possibly after 1 or +1, whose area code and
\* exchange code do not begin with 0 or 1.  The E.164 text, or the empty text
\* when the library does not accept the number.
phonenumbers_e164(phone_clean) ==
    LET national ==
            IF startswith(phone_clean, << "+", "1" >>) THEN SubSeq(phone_clean, 3, Len(phone_clean))
            ELSE IF Len(phone_clean) = 11 /\ phone_clean[1] = "1" THEN Tail(phone_clean)
            ELSE phone_clean
    IN  IF /\ Len(national) = 10
           /\ \A k \in 1..10 : IsDigit(national[k])
           /\ national[1] \notin { "0", "1" }
           /\ national[4] \notin { "0", "1" }
        THEN << "+", "1" >> \o national
        ELSE << >>

\* the pair (cleaned, is_valid)
clean_phone_number(phone) ==
    IF pd_isna(phone) \/ ~truthy(phone) THEN << << >>, FALSE >>
    ELSE LET phone_clean == SelectSeq(strip(str(phone)), IsPhoneChar)
         IN  IF phone_clean = << >> THEN << << >>, FALSE >>
             ELSE IF PHONENUMBERS_AVAILABLE /\ phonenumbers_e164(phone_clean) # << >>
                  THEN << phonenumbers_e164(phone_clean), TRUE >>
             ELSE IF Len(phone_clean) >= 10
                  THEN IF phone_clean[1] = "+" /\ Len(phone_clean) <= 11
                       THEN << Tail(phone_clean), TRUE >>
                       ELSE << phone_clean, TRUE >>
             ELSE << phone_clean, FALSE >>

-----------------------------------------------------------------------------
(* check_email_pattern_match, calculate_data_quality_score *)

\* row.get(col, '')
row_get(row, col) == IF col \in DOMAIN row THEN row[col] ELSE << >>

\* the triple (matches, detected_pattern, expected_pattern)
check_email_pattern_match(email, first_name, last_name, company, patterns) ==
    IF ~truthy(company) \/ company \notin DOMAIN patterns THEN << None, None, None >>
    ELSE LET expected_pattern == patterns[company].pattern
             detected_pattern == detect_email_pattern(email, first_name, last_name)
         IN  << detected_pattern = expected_pattern, detected_pattern, expected_pattern >>

\* the same block giving the bonus to every email at a company with a pattern
email_bonus_without_penalty(row, patterns, check_pattern_match) ==
    IF /\ "Email" \in DOMAIN row /\ truthy(row["Email"])
       /\ validate_email_format(row["Email"])[1]
       /\ check_pattern_match /\ DOMAIN patterns # { }
       /\ truthy(row_get(row, "Company")) /\ row_get(row, "Company") \in DOMAIN patterns
    THEN 10
    ELSE 0

\* the bonus or penalty of the email block
email_bonus_of(row, patterns, check_pattern_match) ==
    IF /\ "Email" \in DOMAIN row /\ truthy(row["Email"])
       /\ validate_email_format(row["Email"])[1]
       /\ check_pattern_match /\ DOMAIN patterns # { }
       /\ truthy(row_get(row, "Company")) /\ row_get(row, "Company") \in DOMAIN patterns
    THEN IF check_email_pattern_match(row["Email"], row_get(row, "First Name"),
                 row_get(row, "Last Name"), row_get(row, "Company"), patterns)[1] = TRUE
         THEN 10
         ELSE -10
    ELSE 0

\* the points of the five blocks
base_score_of(row) ==
    (IF "Email" \in DOMAIN row /\ truthy(row["Email"]) /\ validate_email_format(row["Email"])[1]
        THEN 30 ELSE 0)
    + (IF "First Name" \in DOMAIN row /\ truthy(row["First Name"])
          /\ Len(strip(str(row["First Name"]))) >= 2 THEN 20 ELSE 0)
    + (IF "Last Name" \in DOMAIN row /\ truthy(row["Last Name"])
          /\ Len(strip(str(row["Last Name"]))) >= 2 THEN 20 ELSE 0)
    + (IF "Company" \in DOMAIN row /\ truthy(row["Company"])
          /\ Len(strip(str(row["Company"]))) >= 2 THEN 15 ELSE 0)
    + (IF "Phone" \in DOMAIN row /\ truthy(row["Phone"]) /\ clean_phone_number(row["Phone"])[2]
          THEN 15 ELSE 0)

max_score == 30 + 20 + 20 + 15 + 15

\* int((final_score / max_score) * 100): final_score is never negative, the
\* float product is within 1e-13 of a whole number and int() gives that number
normalize_score(final_score) == (final_score * 100) \div max_score

\* the score returned without the clamp
unclamped(normalized_score) == normalized_score

\* max(0, min(100, normalized_score))
clamp(normalized_score) ==
    IF normalized_score < 0 THEN 0
    ELSE IF normalized_score > 100 THEN 100
    ELSE normalized_score

calculate_data_quality_score(row, patterns, check_pattern_match) ==
    clamp(normalize_score(base_score_of(row) + email_bonus_of(row, patterns, check_pattern_match)))

-----------------------------------------------------------------------------
(* analyze_company_email_patterns *)

\* the rows of the group of a company that have an email, valid or not
valid_rows_any_email(table, company) ==
    { k \in DOMAIN table :
        /\ table[k]["Company"] = company
        /\ ~pd_isna(table[k]["Email"])
        /\ strip(str(table[k]["Email"])) # << >> }

\* the rows of the group of a company whose email is counted as valid
valid_rows(table, company) ==
    { k \in DOMAIN table :
        /\ table[k]["Company"] = company
        /\ ~pd_isna(table[k]["Email"])
        /\ strip(str(table[k]["Email"])) # << >>
        /\ validate_email_format(table[k]["Email"])[1] }

\* the pattern detected for each of the given rows
row_patterns(table, rows) ==
    [k \in rows |->
        detect_email_pattern(table[k]["Email"], row_get(table[k], "First Name"),
                             row_get(table[k], "Last Name"))]

\* pattern_counts[pattern] once the group has been read
pattern_count(patterns, pattern) ==
    Cardinality({ k \in DOMAIN patterns : patterns[k] = pattern })

\* max(pattern_counts, key=pattern_counts.get): of the most frequent patterns,
\* the one the dictionary received first
dominant_pattern(patterns) ==
    LET counts == [k \in DOMAIN patterns |-> pattern_count(patterns, patterns[k])]
        top == { k \in DOMAIN patterns : \A j \in DOMAIN patterns : counts[j] <= counts[k] }
    IN  patterns[CHOOSE k \in top : \A j \in top : k <= j]

\* any share accepted
any_share(count, total) == TRUE

\* pattern_counts[dominant_pattern] / valid_emails >= 0.5
at_least_half(count, total) == 2 * count >= total

\* the entry of a company as a set: empty when the company gets none.
\* 'percentage', which is count / total * 100 and is only displayed, is left out
company_entry(table, company) ==
    LET patterns == row_patterns(table, valid_rows(table, company))
        valid_emails == Cardinality(DOMAIN patterns)
    IN  IF \/ pd_isna(company)                                      \* groupby drops NaN keys
           \/ Cardinality({ k \in DOMAIN table : table[k]["Company"] = company }) < 2
           \/ strip(str(company)) = << >>
           \/ valid_emails < 2
        THEN { }
        ELSE LET dominant == dominant_pattern(patterns)
                 count == pattern_count(patterns, dominant)
             IN  IF at_least_half(count, valid_emails)
                 THEN { [pattern |-> dominant, count |-> count, total |-> valid_emails] }
                 ELSE { }

analyze_company_email_patterns(table) ==
    IF table = << >> \/ "Company" \notin DOMAIN table[1] \/ "Email" \notin DOMAIN table[1]
    THEN [c \in {} |-> << >>]
    ELSE LET entries == [c \in { table[k]["Company"] : k \in DOMAIN table } |->
                            company_entry(table, c)]
         IN  [c \in { c \in DOMAIN entries : entries[c] # { } } |->
                 CHOOSE entry \in entries[c] : TRUE]

-----------------------------------------------------------------------------
(* clean_job_title *)

JOB_TITLE_ABBREVIATIONS ==
    (<< "c","e","o" >> :>
          << "C","h","i","e","f"," ","E","x","e","c","u","t","i","v","e"," ","O","f","f","i","c","e","r" >>)
    @@ (<< "c","t","o" >> :>
          << "C","h","i","e","f"," ","T","e","c","h","n","o","l","o","g","y"," ","O","f","f","i","c","e","r" >>)
    @@ (<< "c","f","o" >> :>
          << "C","h","i","e","f"," ","F","i","n","a","n","c","i","a","l"," ","O","f","f","i","c","e","r" >>)
    @@ (<< "c","m","o" >> :>
          << "C","h","i","e","f"," ","M","a","r","k","e","t","i","n","g"," ","O","f","f","i","c","e","r" >>)
    @@ (<< "c","o","o" >> :>
          << "C","h","i","e","f"," ","O","p","e","r","a","t","i","n","g"," ","O","f","f","i","c","e","r" >>)
    @@ (<< "v","p" >> :>
          << "V","i","c","e"," ","P","r","e","s","i","d","e","n","t" >>)
    @@ (<< "s","v","p" >> :>
          << "S","e","n","i","o","r"," ","V","i","c","e"," ","P","r","e","s","i","d","e","n","t" >>)
    @@ (<< "e","v","p" >> :>
          << "E","x","e","c","u","t","i","v","e"," ","V","i","c","e"," ","P","r","e","s","i","d","e","n","t" >>)
    @@ (<< "d","i","r" >> :>
          << "D","i","r","e","c","t","o","r" >>)
    @@ (<< "m","g","r" >> :>
          << "M","a","n","a","g","e","r" >>)
    @@ (<< "s","r" >> :>
          << "S","e","n","i","o","r" >>)
    @@ (<< "j","r" >> :>
          << "J","u","n","i","o","r" >>)
    @@ (<< "e","n","g" >> :>
          << "E","n","g","i","n","e","e","r" >>)
    @@ (<< "d","e","v" >> :>
          << "D","e","v","e","l","o","p","e","r" >>)
    @@ (<< "p","m" >> :>
          << "P","r","o","d","u","c","t"," ","M","a","n","a","g","e","r" >>)
    @@ (<< "h","r" >> :>
          << "H","u","m","a","n"," ","R","e","s","o","u","r","c","e","s" >>)
    @@ (<< "p","r" >> :>
          << "P","u","b","l","i","c"," ","R","e","l","a","t","i","o","n","s" >>)
    @@ (<< "i","t" >> :>
          << "I","n","f","o","r","m","a","t","i","o","n"," ","T","e","c","h","n","o","l","o","g","y" >>)

\* word.lower().rstrip('.')
RECURSIVE rstrip_dots(_)
rstrip_dots(s) ==
    IF s # << >> /\ s[Len(s)] = "." THEN rstrip_dots(SubSeq(s, 1, Len(s) - 1)) ELSE s

expand_abbreviation(word) ==
    IF rstrip_dots(lower(word)) \in DOMAIN JOB_TITLE_ABBREVIATIONS
    THEN JOB_TITLE_ABBREVIATIONS[rstrip_dots(lower(word))]
    ELSE word

clean_job_title(job_title) ==
    IF pd_isna(job_title) \/ ~truthy(job_title) THEN << >>
    ELSE LET title_str == strip(str(job_title))
             words == split(title(unidecode(fix_text(latin1_to_utf8(title_str)))))
         IN  IF title_str = << >> THEN << >>
             ELSE strip(collapse_spaces(
                      join(<< " " >>, [k \in DOMAIN words |-> expand_abbreviation(words[k])])))

-----------------------------------------------------------------------------
(* find_duplicates *)

\* df.duplicated(subset=cols): the first row of each group is not marked
duplicated_after_first(table, cols) ==
    { k \in DOMAIN table :
        \E j \in DOMAIN table : j < k /\ \A c \in cols : table[j][c] = table[k][c] }

\* df.duplicated(subset=cols, keep=False): the rows that agree with another row
\* on every column of cols; pandas counts two missing cells as equal
duplicated(table, cols) ==
    { k \in DOMAIN table :
        \E j \in DOMAIN table : j # k /\ \A c \in cols : table[j][c] = table[k][c] }

\* the set duplicate_indices
find_duplicates(table) ==
    duplicated(table, { "Email" }) \cup duplicated(table, { "First Name", "Last Name" })

-----------------------------------------------------------------------------
(* split_into_lists_by_company *)

\* the indices of a set in ascending order: the order of df.index
RECURSIVE ascending(_)
ascending(S) ==
    IF S = { } THEN << >>
    ELSE LET least == CHOOSE x \in S : \A y \in S : x <= y
         IN  << least >> \o ascending(S \ { least })

\* the indices filed under the key of row idx in company_groups.  A missing
\* company is the float nan, which equals no float, itself included: the
\* missing cells share one key when they hold one and the same nan object and
\* have a key each when they do not
company_group(table, idx, nan_is_one_object) ==
    IF pd_isna(table[idx]["Company"])
    THEN IF nan_is_one_object
         THEN { j \in DOMAIN table : pd_isna(table[j]["Company"]) }
         ELSE { idx }
    ELSE { j \in DOMAIN table : table[j]["Company"] = table[idx]["Company"] }

\* the values of company_groups, as sets, in the order of insertion: the order
\* in which the keys first occur in the column
company_groups(table, nan_is_one_object) ==
    LET firsts == { idx \in DOMAIN table :
                      \A j \in company_group(table, idx, nan_is_one_object) : idx <= j }
        order == ascending(firsts)
    IN  [g \in DOMAIN order |-> company_group(table, order[g], nan_is_one_object)]

\* the larger of max_lists and the largest count, not the smaller
num_lists_larger_of_both(groups, max_lists) ==
    LET max_count == CHOOSE n \in { Cardinality(groups[g]) : g \in DOMAIN groups } :
                         \A g \in DOMAIN groups : Cardinality(groups[g]) <= n
    IN  IF max_lists >= max_count THEN max_lists ELSE max_count

\* min(max_lists, max_count if max_count > 0 else 1)
num_lists(groups, max_lists) ==
    LET max_count == CHOOSE n \in { Cardinality(groups[g]) : g \in DOMAIN groups } :
                         \A g \in DOMAIN groups : Cardinality(groups[g]) <= n
        wanted == IF max_count > 0 THEN max_count ELSE 1
    IN  IF max_lists <= wanted THEN max_lists ELSE wanted

\* a shuffle that may repeat an index and lose another
shuffles_with_repeats(indices) == [1..Cardinality(indices) -> indices]

\* the outcomes of random.shuffle on the indices of one company
shuffles(indices) ==
    { order \in [1..Cardinality(indices) -> indices] :
        \A p, q \in DOMAIN order : p # q => order[p] # order[q] }

\* every company deals its first two indices into the first batch
batch_of_first_two_together(i, n) == IF i < 2 THEN 1 ELSE (i % n) + 1

\* the batch, counted from 1, that receives the index at position i, counted
\* from 0, of its company: batches[i % num_lists]
batch_of(i, n) == (i % n) + 1

\* the indices one company appends to batch b, in their order
appended(order, b, n) ==
    LET positions == { p \in DOMAIN order : batch_of(p - 1, n) = b }
        ranked == ascending(positions)
    IN  [k \in DOMAIN ranked |-> order[ranked[k]]]

\* batch b after the companies g, g + 1, ... have been dealt out
RECURSIVE batch_from(_, _, _, _)
batch_from(orders, g, b, n) ==
    IF g > Len(orders) THEN << >>
    ELSE appended(orders[g], b, n) \o batch_from(orders, g + 1, b, n)

\* the lists split_into_lists_by_company can return, one for every outcome of
\* the shuffles
split_into_lists_by_company(table, max_lists, nan_is_one_object) ==
    IF DOMAIN table = { } \/ \E idx \in DOMAIN table : "Company" \notin DOMAIN table[idx]
    THEN { << ascending(DOMAIN table) >> }
    ELSE LET groups == company_groups(table, nan_is_one_object)
             n == num_lists(groups, max_lists)
             all_orders == UNION { shuffles(groups[g]) : g \in DOMAIN groups }
         IN  { SelectSeq([b \in 1..n |-> batch_from(orders, 1, b, n)], LAMBDA batch : batch # << >>) :
                   orders \in { o \in [DOMAIN groups -> all_orders] :
                                  \A g \in DOMAIN groups : o[g] \in shuffles(groups[g]) } }

-----------------------------------------------------------------------------
(* clean_data, first pass: the body of the loop over the rows of df *)

\* '' if pd.isna(v) else str(v).strip()
trimmed(v) == IF pd_isna(v) THEN << >> ELSE strip(str(v))

first_of(row, opts) ==
    IF opts.clean_names THEN clean_first_name(trimmed(row["First Name"]))
    ELSE trimmed(row["First Name"])

last_of(row, opts) ==
    IF trimmed(row["Last Name"]) # << >>
    THEN IF opts.clean_names THEN clean_last_name(trimmed(row["Last Name"]))
         ELSE trimmed(row["Last Name"])
    ELSE IF opts.infer_last_name
         THEN LET inferred_last == infer_last_from_email(first_of(row, opts), trimmed(row["Email"]))
              IN  IF inferred_last # << >> THEN clean_last_name(inferred_last) ELSE << >>
         ELSE << >>

company_of(row, opts) ==
    IF opts.clean_company THEN clean_company(trimmed(row["Company"]))
    ELSE trimmed(row["Company"])

phone_of(row, opts) ==
    IF opts.clean_phone THEN clean_phone_number(trimmed(row["Phone"]))[1]
    ELSE trimmed(row["Phone"])

job_title_of(row, opts) ==
    IF opts.clean_job_title THEN clean_job_title(trimmed(row["Job Title"]))
    ELSE trimmed(row["Job Title"])

\* the value the loop body computes for a column of a row
computed_value(row, col, opts) ==
    IF col = "First Name" THEN first_of(row, opts)
    ELSE IF col = "Last Name" THEN last_of(row, opts)
    ELSE IF col = "Company" THEN company_of(row, opts)
    ELSE IF col = "Phone" THEN phone_of(row, opts)
    ELSE IF col = "Job Title" THEN job_title_of(row, opts)
    ELSE trimmed(row[col])

\* the same set with the computed value compared with the cell as loaded
written_columns_against_loaded_cell(row, opts) ==
    { c \in DOMAIN row : computed_value(row, c, opts) # row[c] }

\* the columns of a row that the loop body writes: those whose computed value
\* differs from the trimmed original
written_columns(row, opts) ==
    { c \in DOMAIN row : computed_value(row, c, opts) # trimmed(row[c]) }

\* the row of cleaned_df after the loop body: a written column holds the
\* computed value, every other column still holds the cell of df
cleaned_row(row, opts) ==
    [c \in DOMAIN row |->
        IF c \in written_columns(row, opts) THEN computed_value(row, c, opts) ELSE row[c]]

\* the row of cleaned_df if every column received its computed value
fully_written_row(row, opts) ==
    [c \in DOMAIN row |-> computed_value(row, c, opts)]

\* the entry appended to email_validation_results, as a sequence of 0 or 1
email_validation_entry(i, row, opts) ==
    IF opts.validate_email /\ trimmed(row["Email"]) # << >>
    THEN << [index |-> i, email |-> trimmed(row["Email"]),
             is_valid |-> validate_email_format(trimmed(row["Email"]))[1],
             status |-> validate_email_format(trimmed(row["Email"]))[2]] >>
    ELSE << >>

-----------------------------------------------------------------------------
(* clean_data, second pass: the body of the loop over the rows of cleaned_df *)

\* whether the loop body calls check_email_pattern_match for its report
reports_pattern_match(row, patterns, opts) ==
    /\ opts.calculate_quality_score
    /\ opts.check_company_email_pattern /\ DOMAIN patterns # { }
    /\ truthy(row["Company"]) /\ row["Company"] \in DOMAIN patterns
    /\ truthy(row["Email"])

\* the entry appended to pattern_match_info, as a sequence of 0 or 1
pattern_match_entry(i, row, patterns, opts) ==
    IF reports_pattern_match(row, patterns, opts)
    THEN LET m == check_email_pattern_match(row["Email"], row["First Name"],
                                            row["Last Name"], row["Company"], patterns)
         IN  << [index |-> i, company |-> row["Company"], email |-> row["Email"],
                 matches_pattern |-> m[1], detected_pattern |-> m[2],
                 expected_pattern |-> m[3]] >>
    ELSE << >>

\* whether the loop body raises: detect_email_pattern on a missing email
second_pass_raises(row, patterns, opts) ==
    reports_pattern_match(row, patterns, opts) /\ pd_isna(row["Email"])

-----------------------------------------------------------------------------
(* The inputs the checks draw from *)

MaxWords == 3

\* the texts made of one to MaxWords words of a vocabulary, joined by sep
JoinedOver(words, sep) ==
    { join(sep, ws) : ws \in UNION { [1..n -> words] : n \in 1..MaxWords } }

\* joined by one space: the empty word gives leading, trailing and double spaces
TextsOver(words) == JoinedOver(words, << " " >>)

CompanyWords ==
    { << >>,
      << "a","c","m","e" >>,
      << "G","r","o","u","p" >>,
      << "i","n","c" >>,
      << "l",".","t","d" >>,
      << "i","n","t","e","r","n","a","t","i","o","n","a","l" >>,
      << "n","a","n" >> }

NameWords ==
    { << >>,
      << "d","r","." >>,
      << "M","R" >>,
      << "r","i","a","n" >>,
      << "m","c","d","o","n","a","l","d" >>,
      << "r", ATilde, CopyrightSign >> }

NameArgs == TextsOver(CompanyWords) \cup TextsOver(NameWords) \cup { << >>, NaN }

\* the pieces of the local part of an email
LocalPieces ==
    { << "J","o","h","n" >>, << "j" >>, << "s","m","i","t","h" >>,
      << "." >>, << "_" >>, << "-" >>, << "1" >> }

AtAcme == << "@","a","c","m","e",".","c","o","m" >>

\* emails with and without '@', the empty email and the missing one
EmailArgs ==
    { lp \o AtAcme : lp \in JoinedOver(LocalPieces, << >>) }
        \cup JoinedOver(LocalPieces, << >>)
        \cup { << " " >> \o lp \o AtAcme \o << " " >> : lp \in LocalPieces }
        \cup { << >>, NaN }

FirstNameArgs == { << >>, << "J","o","h","n" >>, << "J" >>, << "j","o" >> }

\* first and last names as the table holds them: absent, clean, padded
DetectFirstArgs == { << >>, << "J","o","h","n" >>, << "J" >>, << " ","j"," " >> }
DetectLastArgs == { << >>, << "S","m","i","t","h" >>, << "s","m","i","t","h"," " >> }

\* the columns of the table
Columns == { "First Name", "Last Name", "Company", "Email", "Phone", "Job Title" }

JohnSmithAtAcme == << "J","o","h","n",".","s","m","i","t","h" >> \o AtAcme
JSmithAtAcme == << "j","s","m","i","t","h" >> \o AtAcme
AtMailinator == << "j","@","m","a","i","l","i","n","a","t","o","r",".","c","o","m" >>
Acme == << "A","C","M","E" >>

\* cells of a cleaned row: missing, empty, too short, present
ScoreFirstNames == { NaN, << >>, << "J" >>, << "J","o","h","n" >> }
ScoreLastNames == { NaN, << >>, << "S","m","i","t","h" >> }
ScoreCompanies == { NaN, << >>, << "X" >>, Acme }
ScoreEmails == { NaN, << >>, << "J","o","h","n" >>, JohnSmithAtAcme, JSmithAtAcme, AtMailinator }
ScorePhones ==
    { NaN, << >>, << "5","5","5","-","0","1","0","0" >>,
      << "(","2","0","2",")"," ","5","5","5","-","0","1","0","0" >> }

ScoreRowsAllColumns ==
    { [c \in Columns |->
          IF c = "First Name" THEN f
          ELSE IF c = "Last Name" THEN l
          ELSE IF c = "Company" THEN co
          ELSE IF c = "Email" THEN e
          ELSE IF c = "Phone" THEN ph
          ELSE << >>] :
      f \in ScoreFirstNames, l \in ScoreLastNames, co \in ScoreCompanies,
      e \in ScoreEmails, ph \in ScorePhones }

\* the same rows of a table that has no Phone column
ScoreRows ==
    ScoreRowsAllColumns
        \cup { [c \in Columns \ { "Phone" } |-> r[c]] : r \in ScoreRowsAllColumns }

NoPatterns == [c \in {} |-> << >>]

ScorePatternMaps ==
    { NoPatterns,
      [c \in { Acme } |-> [pattern |-> "firstname.lastname", count |-> 2, total |-> 3]],
      [c \in { Acme } |-> [pattern |-> "other", count |-> 1, total |-> 2]] }

MaxRows == 3

John1AtAcme == << "J","o","h","n","1" >> \o AtAcme
Beta == << "B","e","t","a" >>

\* a cleaned row of John Smith with the given company and email
contact(company, email) ==
    [c \in Columns |->
        IF c = "First Name" THEN << "J","o","h","n" >>
        ELSE IF c = "Last Name" THEN << "S","m","i","t","h" >>
        ELSE IF c = "Company" THEN company
        ELSE IF c = "Email" THEN email
        ELSE << >>]

AnalyzeRows ==
    { contact(Acme, e) : e \in { JohnSmithAtAcme, JSmithAtAcme, John1AtAcme, AtMailinator, NaN } }
        \cup { contact(Beta, e) : e \in { JohnSmithAtAcme, JSmithAtAcme } }
        \cup { contact(<< " " >>, JohnSmithAtAcme), contact(NaN, JohnSmithAtAcme) }

\* the tables of at most MaxRows rows
AnalyzeTables == UNION { [1..n -> AnalyzeRows] : n \in 0..MaxRows }

MaxRecords == 3

\* a row of the uploaded table
record(first, last, company, email, phone, job_title) ==
    [c \in Columns |->
        IF c = "First Name" THEN first
        ELSE IF c = "Last Name" THEN last
        ELSE IF c = "Company" THEN company
        ELSE IF c = "Email" THEN email
        ELSE IF c = "Phone" THEN phone
        ELSE job_title]

Acmes == << "A","c","m","e","s" >>

\* rows as pd.read_csv gives them: missing cells, padded cells, cells to clean
Records ==
    { record(<< "d","r","."," ","j","o","h","n" >>, NaN,
             << "A","c","m","e"," ","G","r","o","u","p"," ","I","n","c","." >>,
             JohnSmithAtAcme, NaN, << "c","e","o" >>),
      record(<< "J","o","h","n" >>, << "S","m","i","t","h" >>, Acmes,
             JohnSmithAtAcme, << "2","0","2","-","5","5","5","-","0","1","0","0" >>, NaN),
      record(<< "J","o" >>, << "s","m","i","t","h" >>, Acmes \o << " " >>,
             JSmithAtAcme, NaN, NaN),
      record(NaN, << "m","c","d","o","n","a","l","d" >>, Acmes, NaN, NaN, NaN),
      record(<< "J" >>, NaN, NaN, AtMailinator, << "5","5","5" >>, << "V","p" >>) }

Tables == UNION { [1..n -> Records] : n \in 0..MaxRecords }

AllOn ==
    [clean_names |-> TRUE, clean_company |-> TRUE, infer_last_name |-> TRUE,
     validate_email |-> TRUE, check_company_email_pattern |-> TRUE, clean_phone |-> TRUE,
     clean_job_title |-> TRUE, calculate_quality_score |-> TRUE, remove_duplicates |-> TRUE]

\* the sidebar's defaults, everything on, cleaning off, scoring off
OptionSets ==
    { [AllOn EXCEPT !.check_company_email_pattern = FALSE, !.remove_duplicates = FALSE],
      AllOn,
      [AllOn EXCEPT !.clean_names = FALSE, !.clean_company = FALSE, !.infer_last_name = FALSE,
                    !.clean_phone = FALSE, !.clean_job_title = FALSE, !.validate_email = FALSE],
      [AllOn EXCEPT !.calculate_quality_score = FALSE, !.remove_duplicates = FALSE] }

NoDirectory == [k \in {} |-> << >>]

\* a directory as company_directory.csv gives it: trimmed lower-case keys
SomeDirectory ==
    [k \in { << "a","c","m","e" >>, << "g","r","o","u","p" >>, << "n","a","n" >> } |->
        IF k = << "a","c","m","e" >>
        THEN << "A","c","m","e"," ","C","o","r","p","o","r","a","t","i","o","n" >>
        ELSE IF k = << "g","r","o","u","p" >>
        THEN << "t","h","e"," ","G","R","O","U","P" >>
        ELSE << "N","a","n"," ","F","o","o","d","s" >>]

Directories == { NoDirectory, SomeDirectory }

-----------------------------------------------------------------------------
(* The run of the pipeline, when no run is modelled *)

PipelineIdle ==
    /\ df = << >>
    /\ options = << >>
    /\ cleaned_df = << >>
    /\ changed_mask = << >>
    /\ changes = 0
    /\ stage = "idle"
    /\ cursor = 0
    /\ company_patterns = << >>
    /\ quality_scores = << >>
    /\ pattern_match_info = << >>
    /\ email_validation_results = << >>
    /\ percent_cleaned = << 0, 1 >>

\* neither optional library imported
NoLibraries ==
    /\ EMAIL_VALIDATOR_AVAILABLE = FALSE
    /\ PHONENUMBERS_AVAILABLE = FALSE

NotCalled ==
    /\ call = "none"
    /\ ncalls = 0
    /\ ret = << >>
    /\ ret2 = << >>

-----------------------------------------------------------------------------
(* The normalizers, each applied to a drawn text and then to its own result *)

InitNormalize ==
    /\ PipelineIdle
    /\ NotCalled
    /\ NoLibraries
    /\ company_dict \in Directories
    /\ args \in [name : NameArgs]

CallCleanCompany ==
    /\ stage = "idle" /\ call = "none" /\ "name" \in DOMAIN args
    /\ call' = "clean_company"
    /\ ncalls' = 1
    /\ ret' = clean_company(args.name)
    /\ UNCHANGED << pipeline_vars, module_vars, args, ret2 >>

CallCleanFirstName ==
    /\ stage = "idle" /\ call = "none" /\ "name" \in DOMAIN args
    /\ call' = "clean_first_name"
    /\ ncalls' = 1
    /\ ret' = clean_first_name(args.name)
    /\ UNCHANGED << pipeline_vars, module_vars, args, ret2 >>

CallCleanLastName ==
    /\ stage = "idle" /\ call = "none" /\ "name" \in DOMAIN args
    /\ call' = "clean_last_name"
    /\ ncalls' = 1
    /\ ret' = clean_last_name(args.name)
    /\ UNCHANGED << pipeline_vars, module_vars, args, ret2 >>

\* the same normalizer applied to what it returned
CallAgain ==
    /\ ncalls = 1
    /\ call \in { "clean_company", "clean_first_name", "clean_last_name" }
    /\ ncalls' = 2
    /\ ret2' = IF call = "clean_company" THEN clean_company(ret)
               ELSE IF call = "clean_first_name" THEN clean_first_name(ret)
               ELSE clean_last_name(ret)
    /\ UNCHANGED << pipeline_vars, module_vars, args, call, ret >>

NextNormalize ==
    \/ CallCleanCompany
    \/ CallCleanFirstName
    \/ CallCleanLastName
    \/ CallAgain

SpecNormalize == InitNormalize /\ [][NextNormalize]_vars

-----------------------------------------------------------------------------
(* Properties of the normalizers *)

\* the directory key of a raw company text
directory_key(x) == lower(strip(x))

\* the maximal runs of word characters of a text
RECURSIVE words_of(_, _)
words_of(s, k) ==
    IF k > Len(s) THEN { }
    ELSE IF IsWordChar(s[k])
         THEN { SubSeq(s, k, word_end(s, k)) } \cup words_of(s, word_end(s, k) + 1)
         ELSE words_of(s, k + 1)

\* the suffix vocabulary as the specification lists it
SuffixVocabulary ==
    COMMON_SUFFIXES \cup { << "i","n","t","e","r","n","a","t","i","o","n","a","l" >> }

\* the honorifics the specification lists
Honorifics ==
    { << "d","r" >>, << "d","r","." >>, << "p","r","o","f" >>, << "p","r","o","f","." >>,
      << "s","i","r" >>, << "m","r" >>, << "m","r","s" >>, << "m","s" >>, << "m","x" >>,
      << "h","o","n" >> }

\* the tokens the first-name normalizer selects from
first_name_tokens(x) == split(strip(unidecode(fix_text(latin1_to_utf8(x)))))

\* C5: normalization is idempotent: each of clean_company, clean_first_name and
\* clean_last_name, applied to its own result, returns that result unchanged.
C5_Idempotent == ncalls = 2 => ret2 = ret

\* C6 as stated: whenever the trimmed, lower-cased company text is a key of the
\* directory, clean_company returns the mapped value, whatever the key is.
C6_DirectoryOverrideAnyKey ==
    (call = "clean_company" /\ ncalls >= 1 /\ ~pd_isna(args.name)
        /\ directory_key(args.name) \in DOMAIN company_dict)
    => ret = company_dict[directory_key(args.name)]

\* C6 amended: whenever the trimmed, lower-cased company text is a key of the
\* directory and is none of 'nan', 'none', 'null', clean_company returns the
\* mapped value exactly; for 'nan', 'none' and 'null' it returns the empty text
\* although the directory has the key.
C6_DirectoryOverride ==
    (call = "clean_company" /\ ncalls >= 1 /\ ~pd_isna(args.name)
        /\ directory_key(args.name) \in DOMAIN company_dict)
    => ret = IF directory_key(args.name) \in NullWords
             THEN << >>
             ELSE company_dict[directory_key(args.name)]

\* a company whose key is a suffix word, written with capitals and padding, has
\* been replaced by its directory entry, which the rules would have changed
C6_Witness ==
    /\ call = "clean_company" /\ ncalls >= 1 /\ ~pd_isna(args.name)
    /\ directory_key(args.name) = << "g","r","o","u","p" >>
    /\ args.name # directory_key(args.name)
    /\ company_dict = SomeDirectory
    /\ ret = SomeDirectory[<< "g","r","o","u","p" >>]
    /\ clean_company_rules(ret) # ret

\* C7: a first name of two or more tokens whose first token is an honorific
\* comes back as the title-cased second token; an honorific alone is kept.
C7_HonorificDropped ==
    (call = "clean_first_name" /\ ncalls >= 1 /\ ~pd_isna(args.name)
        /\ first_name_tokens(args.name) # << >>
        /\ lower(first_name_tokens(args.name)[1]) \in Honorifics)
    => ret = IF Len(first_name_tokens(args.name)) >= 2
             THEN title(first_name_tokens(args.name)[2])
             ELSE title(first_name_tokens(args.name)[1])

\* C8: the result of clean_company for a text that is no directory key holds no
\* whole word that is, in any case, a word of the suffix vocabulary.
C8_NoSuffixWordLeft ==
    (call = "clean_company" /\ ncalls >= 1 /\ ~pd_isna(args.name)
        /\ directory_key(args.name) \notin DOMAIN company_dict)
    => \A w \in words_of(ret, 1) : lower(w) \notin SuffixVocabulary

-----------------------------------------------------------------------------
(* infer_last_from_email applied to a drawn first name and email *)

InitInfer ==
    /\ PipelineIdle
    /\ NotCalled
    /\ NoLibraries
    /\ company_dict = NoDirectory
    /\ args \in [first_name : FirstNameArgs, email : EmailArgs]

CallInferLastFromEmail ==
    /\ stage = "idle" /\ call = "none"
    /\ call' = "infer_last_from_email"
    /\ ncalls' = 1
    /\ ret' = infer_last_from_email(args.first_name, args.email)
    /\ UNCHANGED << pipeline_vars, module_vars, args, ret2 >>

NextInfer == CallInferLastFromEmail

SpecInfer == InitInfer /\ [][NextInfer]_vars

\* the text before '@', lower-cased
user_of(email) == lower(before_sep(email, "@"))

\* u is f, then sep separator characters, then exactly m letters a-z that no
\* further letter follows
IsFirstSepLetters(u, f, sep, m) ==
    /\ startswith(u, f)
    /\ Len(u) >= Len(f) + sep + m
    /\ \A k \in 1..sep : IsSeparator(u[Len(f) + k])
    /\ \A k \in 1..m : IsLowerChar(u[Len(f) + sep + k])
    /\ (Len(u) > Len(f) + sep + m => ~IsLowerChar(u[Len(f) + sep + m + 1]))

\* C9: infer_last_from_email returns the empty text when the email or the first
\* name is empty; else the title-cased letter run that follows the first name
\* and at most one separator in the local part; else the title-cased rest of
\* the local part after the first name's initial, when there is such a rest;
\* else the empty text.
C9_InferLast ==
    (call = "infer_last_from_email" /\ ncalls = 1)
    => LET f == lower(args.first_name)
           u == user_of(args.email)
       IN  IF args.email = << >> \/ pd_isna(args.email) \/ args.first_name = << >>
           THEN ret = << >>
           ELSE IF \E sep \in 0..1 : \E m \in 1..Len(u) : IsFirstSepLetters(u, f, sep, m)
           THEN \E sep \in 0..1 : \E m \in 1..Len(u) :
                   /\ IsFirstSepLetters(u, f, sep, m)
                   /\ ret = title(SubSeq(u, Len(f) + sep + 1, Len(f) + sep + m))
           ELSE IF Len(u) >= 2 /\ u[1] = f[1]
           THEN ret = title(Tail(u))
           ELSE ret = << >>

\* first 'John' with 'John.smith...@acme.com' has given 'Smith' by the pattern
\* branch
C9_WitnessPattern ==
    /\ call = "infer_last_from_email" /\ ncalls = 1
    /\ args.first_name = << "J","o","h","n" >>
    /\ startswith(args.email, << "J","o","h","n",".","s","m","i","t","h" >>)
    /\ ret = << "S","m","i","t","h" >>

-----------------------------------------------------------------------------
(* detect_email_pattern applied to a drawn email, first name and last name *)

InitDetect ==
    /\ PipelineIdle
    /\ NotCalled
    /\ NoLibraries
    /\ company_dict = NoDirectory
    /\ args \in [email : EmailArgs, first_name : DetectFirstArgs, last_name : DetectLastArgs]

CallDetectEmailPattern ==
    /\ stage = "idle" /\ call = "none"
    /\ call' = "detect_email_pattern"
    /\ ncalls' = 1
    /\ ret' = detect_email_pattern(args.email, args.first_name, args.last_name)
    /\ UNCHANGED << pipeline_vars, module_vars, args, ret2 >>

NextDetect == CallDetectEmailPattern

SpecDetect == InitDetect /\ [][NextDetect]_vars

initial_of(f) == IF f = << >> THEN << >> ELSE << f[1] >>

\* the ten forms in the order of the claim: identifier, form, and whether the
\* names the form is built from are both present
pattern_forms(f, l) ==
    << << "firstname.lastname",    f \o << "." >> \o l,             f # << >> /\ l # << >> >>,
       << "firstname_lastname",    f \o << "_" >> \o l,             f # << >> /\ l # << >> >>,
       << "firstname-lastname",    f \o << "-" >> \o l,             f # << >> /\ l # << >> >>,
       << "firstnamelastname",     f \o l,                          f # << >> /\ l # << >> >>,
       << "firstinitial.lastname", initial_of(f) \o << "." >> \o l, f # << >> /\ l # << >> >>,
       << "firstinitiallastname",  initial_of(f) \o l,              f # << >> /\ l # << >> >>,
       << "lastname.firstname",    l \o << "." >> \o f,             f # << >> /\ l # << >> >>,
       << "lastname_firstname",    l \o << "_" >> \o f,             f # << >> /\ l # << >> >>,
       << "firstname",             f,                               f # << >> >>,
       << "lastname",              l,                               l # << >> >> >>

has_at(email) == \E k \in DOMAIN email : email[k] = "@"
has_digit(s) == \E k \in DOMAIN s : IsDigit(s[k])

\* the first identifier whose form equals the local part, among the forms that
\* Usable admits; else with_numbers or other
first_matching_form(forms, local, Usable(_)) ==
    LET hits == { k \in DOMAIN forms : Usable(forms[k]) /\ forms[k][2] = local }
    IN  IF hits # { }
        THEN forms[CHOOSE k \in hits : \A j \in hits : k <= j][1]
        ELSE IF has_digit(local) THEN "with_numbers" ELSE "other"

AnyForm(form) == TRUE
FormWithNamesPresent(form) == form[3]

-----------------------------------------------------------------------------
(* calculate_data_quality_score applied to a drawn row, pattern map and flag *)

InitScore ==
    /\ PipelineIdle
    /\ NotCalled
    /\ company_dict = NoDirectory
    /\ EMAIL_VALIDATOR_AVAILABLE \in BOOLEAN
    /\ PHONENUMBERS_AVAILABLE = EMAIL_VALIDATOR_AVAILABLE
    /\ args \in [row : ScoreRows, company_patterns : ScorePatternMaps,
                 check_pattern_match : BOOLEAN]

CallCalculateDataQualityScore ==
    /\ stage = "idle" /\ call = "none"
    /\ call' = "calculate_data_quality_score"
    /\ ncalls' = 1
    /\ ret' = calculate_data_quality_score(args.row, args.company_patterns,
                                           args.check_pattern_match)
    /\ UNCHANGED << pipeline_vars, module_vars, args, ret2 >>

NextScore == CallCalculateDataQualityScore

SpecScore == InitScore /\ [][NextScore]_vars

\* C1: the quality score of every row, for every pattern map and with pattern
\* checking on or off, is an integer from 0 to 100.
C1_ScoreInRange ==
    (call = "calculate_data_quality_score" /\ ncalls = 1) => ret \in 0..100

\* a row with every block earned and the pattern bonus, 110 points before the
\* clamp, has been scored 100
C1_Witness ==
    /\ call = "calculate_data_quality_score" /\ ncalls = 1
    /\ base_score_of(args.row)
         + email_bonus_of(args.row, args.company_patterns, args.check_pattern_match) = 110
    /\ ret = 100

\* the length of a cell as the claim counts it: a missing cell has none
present_length(row, col) ==
    IF col \notin DOMAIN row \/ pd_isna(row[col]) THEN 0 ELSE Len(strip(row[col]))

email_is_valid(row) == validate_email_format(row_get(row, "Email"))[1]
phone_is_valid(row) == clean_phone_number(row_get(row, "Phone"))[2]

claimed_raw_score(row) ==
    (IF email_is_valid(row) THEN 30 ELSE 0)
    + (IF present_length(row, "First Name") >= 2 THEN 20 ELSE 0)
    + (IF present_length(row, "Last Name") >= 2 THEN 20 ELSE 0)
    + (IF present_length(row, "Company") >= 2 THEN 15 ELSE 0)
    + (IF phone_is_valid(row) THEN 15 ELSE 0)

claimed_adjustment(row, patterns, check_pattern_match) ==
    IF check_pattern_match /\ email_is_valid(row) /\ row_get(row, "Company") \in DOMAIN patterns
    THEN IF detect_email_pattern(row["Email"], row_get(row, "First Name"),
                                 row_get(row, "Last Name"))
              = patterns[row_get(row, "Company")].pattern
         THEN 10 ELSE -10
    ELSE 0

between_0_and_100(x) == IF x < 0 THEN 0 ELSE IF x > 100 THEN 100 ELSE x

\* C2: the quality score equals clamp(raw + adjustment, 0, 100), raw being 30
\* for a valid email, 20 for a first name of two or more characters, 20 for
\* such a last name, 15 for such a company and 15 for a valid phone, and
\* adjustment +10 or -10 for a valid email that matches or does not match the
\* pattern assigned to the row's company when pattern checking is on, else 0.
C2_ScoreFormula ==
    (call = "calculate_data_quality_score" /\ ncalls = 1)
    => ret = between_0_and_100(
                 claimed_raw_score(args.row)
                 + claimed_adjustment(args.row, args.company_patterns,
                                      args.check_pattern_match))

-----------------------------------------------------------------------------
(* analyze_company_email_patterns applied to a drawn table *)

InitAnalyze ==
    /\ PipelineIdle
    /\ NotCalled
    /\ company_dict = NoDirectory
    /\ EMAIL_VALIDATOR_AVAILABLE \in BOOLEAN
    /\ PHONENUMBERS_AVAILABLE = FALSE
    /\ args \in [df : AnalyzeTables]

CallAnalyzeCompanyEmailPatterns ==
    /\ stage = "idle" /\ call = "none"
    /\ call' = "analyze_company_email_patterns"
    /\ ncalls' = 1
    /\ ret' = analyze_company_email_patterns(args.df)
    /\ UNCHANGED << pipeline_vars, module_vars, args, ret2 >>

NextAnalyze == CallAnalyzeCompanyEmailPatterns

SpecAnalyze == InitAnalyze /\ [][NextAnalyze]_vars

\* the rows of a company whose email passes validate_email_format
rows_with_valid_email(table, company) ==
    { k \in DOMAIN table :
        table[k]["Company"] = company /\ validate_email_format(table[k]["Email"])[1] }

\* how many of them have the given pattern
rows_with_pattern(table, company, pattern) ==
    Cardinality({ k \in rows_with_valid_email(table, company) :
                    detect_email_pattern(table[k]["Email"], table[k]["First Name"],
                                         table[k]["Last Name"]) = pattern })

PatternIds ==
    { "firstname.lastname", "firstname_lastname", "firstname-lastname", "firstnamelastname",
      "firstinitial.lastname", "firstinitiallastname", "lastname.firstname",
      "lastname_firstname", "firstname", "lastname", "with_numbers", "other", "unknown" }

\* C3: every entry of the map is for a non-empty company with two or more
\* valid emails, its total is that number, its count is the number of them
\* with the recorded pattern, and count / total >= 1/2; a company with fewer
\* than two valid emails, or whose most frequent pattern covers less than half
\* of them, has no entry.
C3_PatternMapEntries ==
    (call = "analyze_company_email_patterns" /\ ncalls = 1)
    => /\ \A c \in DOMAIN ret :
            LET n == Cardinality(rows_with_valid_email(args.df, c))
            IN  /\ ~pd_isna(c) /\ strip(c) # << >>
                /\ n >= 2
                /\ ret[c].total = n
                /\ ret[c].count = rows_with_pattern(args.df, c, ret[c].pattern)
                /\ 2 * ret[c].count >= ret[c].total
       /\ \A k \in DOMAIN args.df :
            LET c == args.df[k]["Company"]
                n == Cardinality(rows_with_valid_email(args.df, c))
            IN  (n < 2 \/ \A p \in PatternIds : 2 * rows_with_pattern(args.df, c, p) < n)
                => c \notin DOMAIN ret

\* three valid emails of one company, two of them firstname.lastname, have
\* given that company the entry (firstname.lastname, 2, 3)
C3_Witness ==
    /\ call = "analyze_company_email_patterns" /\ ncalls = 1
    /\ Acme \in DOMAIN ret
    /\ ret[Acme] = [pattern |-> "firstname.lastname", count |-> 2, total |-> 3]

-----------------------------------------------------------------------------
(* One run of the module body on an uploaded table: clean_data, then the
   duplicate handling.  stage is the last stage completed; cursor counts the
   rows the loop under way has processed. *)

Init ==
    /\ df \in Tables
    /\ options \in OptionSets
    /\ company_dict \in Directories
    /\ EMAIL_VALIDATOR_AVAILABLE \in BOOLEAN
    /\ PHONENUMBERS_AVAILABLE = EMAIL_VALIDATOR_AVAILABLE
    /\ cleaned_df = df                                                   \* df.copy()
    /\ changed_mask = [i \in DOMAIN df |-> [c \in Columns |-> FALSE]]
    /\ changes = 0
    /\ stage = "Loaded"
    /\ cursor = 0
    /\ company_patterns = NoPatterns
    /\ quality_scores = << >>
    /\ pattern_match_info = << >>
    /\ email_validation_results = << >>
    /\ percent_cleaned = << 0, 1 >>
    /\ args = << >>
    /\ NotCalled

\* one turn of the first loop of clean_data
NormalizeRow ==
    /\ stage = "Loaded" /\ cursor < Len(df)
    /\ LET i == cursor + 1
           written == written_columns(df[i], options)
       IN  /\ cleaned_df' = [cleaned_df EXCEPT ![i] = cleaned_row(df[i], options)]
           /\ changed_mask' = [changed_mask EXCEPT ![i] = [c \in Columns |-> c \in written]]
           /\ changes' = changes + Cardinality(written)
           /\ email_validation_results' =
                  email_validation_results \o email_validation_entry(i, df[i], options)
           /\ cursor' = i
    /\ UNCHANGED << df, options, stage, company_patterns, quality_scores,
                    pattern_match_info, percent_cleaned, module_vars, call_vars >>

\* the first loop ends
EndFirstPass ==
    /\ stage = "Loaded" /\ cursor = Len(df)
    /\ stage' = "FieldsNormalized"
    /\ cursor' = 0
    /\ UNCHANGED << df, options, cleaned_df, changed_mask, changes, company_patterns,
                    quality_scores, pattern_match_info, email_validation_results,
                    percent_cleaned, module_vars, call_vars >>

\* the pattern analysis between the two loops
AnalyzePatterns ==
    /\ stage = "FieldsNormalized"
    /\ company_patterns' =
           IF options.check_company_email_pattern
           THEN analyze_company_email_patterns(cleaned_df)
           ELSE NoPatterns
    /\ stage' = "PatternsAnalyzed"
    /\ UNCHANGED << df, options, cleaned_df, changed_mask, changes, cursor,
                    quality_scores, pattern_match_info, email_validation_results,
                    percent_cleaned, module_vars, call_vars >>

\* one turn of the second loop of clean_data
ScoreRow ==
    /\ stage = "PatternsAnalyzed" /\ cursor < Len(df)
    /\ LET i == cursor + 1
           row == cleaned_df[i]
       IN  IF second_pass_raises(row, company_patterns, options)
           THEN /\ stage' = "Raised"
                /\ quality_scores' = Append(quality_scores,
                       calculate_data_quality_score(row, company_patterns,
                                                    options.check_company_email_pattern))
                /\ UNCHANGED << pattern_match_info, cursor >>
           ELSE /\ quality_scores' =
                       IF options.calculate_quality_score
                       THEN Append(quality_scores,
                                calculate_data_quality_score(row, company_patterns,
                                    options.check_company_email_pattern))
                       ELSE quality_scores
                /\ pattern_match_info' =
                       pattern_match_info \o pattern_match_entry(i, row, company_patterns, options)
                /\ cursor' = i
                /\ UNCHANGED stage
    /\ UNCHANGED << df, options, cleaned_df, changed_mask, changes, company_patterns,
                    email_validation_results, percent_cleaned, module_vars, call_vars >>

\* the second loop ends: the Quality Score column and the percentage
EndSecondPass ==
    /\ stage = "PatternsAnalyzed" /\ cursor = Len(df)
    /\ cleaned_df' =
           IF options.calculate_quality_score /\ quality_scores # << >>
           THEN [i \in DOMAIN cleaned_df |->
                    [c \in Columns \cup { "Quality Score" } |->
                        IF c = "Quality Score" THEN quality_scores[i] ELSE cleaned_df[i][c]]]
           ELSE cleaned_df
    /\ percent_cleaned' = IF Len(df) > 0 THEN << changes * 100, Len(df) >> ELSE << 0, 1 >>
    /\ stage' = "Scored"
    /\ UNCHANGED << df, options, changed_mask, changes, cursor, company_patterns,
                    quality_scores, pattern_match_info, email_validation_results,
                    module_vars, call_vars >>

\* a table without the given rows
drop(table, rows) == [i \in (DOMAIN table) \ rows |-> table[i]]

\* the duplicate handling of the module body
RemoveDuplicates ==
    /\ stage = "Scored" /\ options.remove_duplicates
    /\ cleaned_df' = drop(cleaned_df, find_duplicates(cleaned_df))
    /\ changed_mask' = drop(changed_mask, find_duplicates(cleaned_df))
    /\ stage' = "DuplicatesRemoved"
    /\ UNCHANGED << df, options, changes, cursor, company_patterns, quality_scores,
                    pattern_match_info, email_validation_results, percent_cleaned,
                    module_vars, call_vars >>

\* the statistics and the downloads: nothing of the run changes any more
Finalize ==
    /\ stage = IF options.remove_duplicates THEN "DuplicatesRemoved" ELSE "Scored"
    /\ stage' = "Finalized"
    /\ UNCHANGED << df, options, cleaned_df, changed_mask, changes, cursor,
                    company_patterns, quality_scores, pattern_match_info,
                    email_validation_results, percent_cleaned, module_vars, call_vars >>

Next ==
    \/ NormalizeRow
    \/ EndFirstPass
    \/ AnalyzePatterns
    \/ ScoreRow
    \/ EndSecondPass
    \/ RemoveDuplicates
    \/ Finalize

Spec == Init /\ [][Next]_vars

-----------------------------------------------------------------------------
(* The order of the stages of a run *)

StageOrder ==
    { << "Loaded", "FieldsNormalized" >>, << "FieldsNormalized", "PatternsAnalyzed" >>,
      << "PatternsAnalyzed", "Scored" >>, << "Scored", "DuplicatesRemoved" >>,
      << "Scored", "Finalized" >>, << "DuplicatesRemoved", "Finalized" >> }

\* the run moves from stage to stage only along the order; a run the second
\* loop aborts enters no further stage
follows_stage_order ==
    stage' # stage => (<< stage, stage' >> \in StageOrder \/ stage' = "Raised")

\* no record is normalized after the first stage, scored outside the third
rows_handled_in_their_stage ==
    /\ (\E i \in DOMAIN df : i \in DOMAIN cleaned_df /\ i \in DOMAIN cleaned_df'
            /\ \E c \in Columns : cleaned_df'[i][c] # cleaned_df[i][c]) => stage = "Loaded"
    /\ quality_scores' # quality_scores => stage = "PatternsAnalyzed"
    /\ company_patterns' # company_patterns => stage = "FieldsNormalized"
    /\ DOMAIN cleaned_df' # DOMAIN cleaned_df => (stage = "Scored" /\ Len(quality_scores) = Len(df))

\* a missing cell and the empty text are the same value to the analysis
same_cell(a, b) == (pd_isna(a) /\ b = << >>) \/ a = b

\* the columns the options have the first loop normalize
normalized_columns ==
    (IF options.clean_names THEN { "First Name", "Last Name" } ELSE { })
        \cup (IF options.clean_company THEN { "Company" } ELSE { })

\* every name and company cell of the table the analysis reads holds the
\* value the first loop computed for it
reads_normalized_values ==
    \A i \in DOMAIN df : \A c \in normalized_columns :
        same_cell(cleaned_df[i][c], computed_value(df[i], c, options))

\* C4, the order alone: the stages follow one another in the order Loaded,
\* FieldsNormalized, PatternsAnalyzed, Scored, DuplicatesRemoved (optional),
\* Finalized, each record is normalized, analysed and scored in its own stage,
\* and duplicates go only after every record has its score.
C4_StagesInOrder == [][follows_stage_order /\ rows_handled_in_their_stage]_vars

\* C4: in one run the stages occur strictly in the order Loaded,
\* FieldsNormalized, PatternsAnalyzed, Scored, (optional) DuplicatesRemoved,
\* Finalized, none entered twice; pattern analysis starts only after the name
\* and company fields of all records have been normalized and reads only
\* normalized values; scores are computed only after the analysis; duplicates
\* are removed only after all records are scored.
C4_StagesInOrderOverNormalizedValues ==
    [][/\ follows_stage_order
       /\ rows_handled_in_their_stage
       /\ (stage = "FieldsNormalized" /\ stage' = "PatternsAnalyzed"
              => cursor = 0 /\ reads_normalized_values)]_vars

\* the pattern map the analysis would give over the normalized values
patterns_over_normalized_values ==
    analyze_company_email_patterns([i \in DOMAIN df |-> fully_written_row(df[i], options)])

\* the analysis of a run gave another pattern map than the normalized values give
C4_AnalysisReadPaddedCompany ==
    /\ stage = "PatternsAnalyzed" /\ options.check_company_email_pattern
    /\ company_patterns # patterns_over_normalized_values

\* the second loop raised
SecondPassRaised == stage = "Raised"

\* the whole run happened, duplicates removed
RunFinalized == stage = "Finalized" /\ DOMAIN cleaned_df # DOMAIN df

-----------------------------------------------------------------------------
(* The pattern bonus and penalty, relative to a company without a pattern *)

\* the call scored a row with a valid email at a company with an assigned
\* pattern, pattern checking on
scored_against_pattern ==
    /\ call = "calculate_data_quality_score" /\ ncalls = 1
    /\ args.check_pattern_match
    /\ email_is_valid(args.row)
    /\ row_get(args.row, "Company") \in DOMAIN args.company_patterns

\* whether the email of the row scored has the pattern of its company
email_fits_pattern ==
    detect_email_pattern(args.row["Email"], row_get(args.row, "First Name"),
                         row_get(args.row, "Last Name"))
        = args.company_patterns[row_get(args.row, "Company")].pattern

\* the score of the same row when no company has a pattern
score_without_pattern == calculate_data_quality_score(args.row, NoPatterns, TRUE)

\* C11 as stated: with pattern checking on, a row with a valid email whose
\* company has a pattern scores exactly 10 more than without a pattern when the
\* email fits the pattern, and exactly 10 less when it does not.
C11_TenPointsEitherWay ==
    scored_against_pattern
    => ret = score_without_pattern + (IF email_fits_pattern THEN 10 ELSE -10)

\* C11 amended: such a row scores 10 more than without a pattern, but never
\* more than 100, when the email fits the pattern, and exactly 10 less when it
\* does not.
C11_TenPointsUpTo100 ==
    scored_against_pattern
    => ret = IF email_fits_pattern
             THEN (IF score_without_pattern + 10 > 100 THEN 100 ELSE score_without_pattern + 10)
             ELSE score_without_pattern - 10

\* a row worth 85 without a pattern has been scored 75 for an email that does
\* not fit the pattern of its company
C11_Witness ==
    /\ scored_against_pattern
    /\ ~email_fits_pattern
    /\ score_without_pattern = 85
    /\ ret = 75

-----------------------------------------------------------------------------
(* validate_email_format applied to a drawn email *)

\* emails of a local part and a domain, bare and padded; blank, missing and
\* '@'-less ones
ValidateEmailArgs ==
    LET locals == { << >>, << "a" >>, << ".","a" >>, << "a"," ","b" >>, << "a","@","b" >>,
                    << "J",".","s","+","1" >> }
        domains == { << "a","c","m","e",".","c","o","m" >>,
                     << "m","a","i","l","i","n","a","t","o","r",".","c","o","m" >>,
                     << "M","a","i","l","i","n","a","t","o","r",".","C","O","M" >>,
                     << "t","e","m","p","-","m","a","i","l",".","o","r","g" >>,
                     << "m","a","i","l","i","n","a","t","o","r",".","c","o" >>,
                     << "a","c","m","e" >>, << "a","c","m","e",".","c" >>,
                     << "a","c","m","e",".","c","0","m" >>, << ".","c","o","m" >>,
                     << "a","_","b",".","c","o","m" >> }
        bare == { l \o << "@" >> \o d : l \in locals, d \in domains }
    IN  bare \cup { << " " >> \o e \o << " "," " >> : e \in bare }
             \cup { NaN, << >>, << " " >>, << "a" >>, << "a",".","c","o","m" >> }

InitValidate ==
    /\ PipelineIdle
    /\ NotCalled
    /\ company_dict = NoDirectory
    /\ EMAIL_VALIDATOR_AVAILABLE \in BOOLEAN
    /\ PHONENUMBERS_AVAILABLE = FALSE
    /\ args \in [email : ValidateEmailArgs]

CallValidateEmailFormat ==
    /\ stage = "idle" /\ call = "none"
    /\ call' = "validate_email_format"
    /\ ncalls' = 1
    /\ ret' = validate_email_format(args.email)
    /\ UNCHANGED << pipeline_vars, module_vars, args, ret2 >>

NextValidate == CallValidateEmailFormat

SpecValidate == InitValidate /\ [][NextValidate]_vars

\* the text is localpart@domain.tld: one or more of a-z A-Z 0-9 . _ % + -,
\* an '@', one or more of a-z A-Z 0-9 . -, a dot, and two or more letters
is_localpart_at_domain_tld(e) ==
    \E at \in 2..Len(e) : \E dot \in (at + 2)..(Len(e) - 2) :
        /\ e[at] = "@" /\ e[dot] = "."
        /\ \A k \in 1..(at - 1) : IsLocalChar(e[k])
        /\ \A k \in (at + 1)..(dot - 1) : IsDomainChar(e[k])
        /\ \A k \in (dot + 1)..Len(e) : IsAsciiLetter(e[k])

\* the part of the text after its '@'
domain_of(e) == SubSeq(e, CHOOSE k \in DOMAIN e : e[k] = "@" /\ \A j \in 1..(k - 1) : e[j] # "@", Len(e))

\* C12: validate_email_format gives (False, Missing) for a missing or blank
\* email; else (False, Invalid Format) for one that is not localpart@domain.tld;
\* else (False, Disposable Email) for a domain of the denylist; else
\* (True, Valid) unless the stricter validator rejects it, and then the email
\* is not valid; is_valid is true only with Valid.
C12_ValidationPrecedence ==
    (call = "validate_email_format" /\ ncalls = 1)
    => LET e == IF pd_isna(args.email) THEN << >> ELSE lower(strip(args.email))
       IN  /\ (ret[1] = TRUE) => (ret[2] = "Valid")
           /\ IF e = << >> THEN ret = << FALSE, "Missing" >>
              ELSE IF ~is_localpart_at_domain_tld(e) THEN ret = << FALSE, "Invalid Format" >>
              ELSE IF Tail(domain_of(e)) \in DISPOSABLE_EMAIL_DOMAINS
                   THEN ret = << FALSE, "Disposable Email" >>
              ELSE IF EMAIL_VALIDATOR_AVAILABLE /\ ~email_validator_accepts(strip(args.email))
                   THEN ret[1] = FALSE
              ELSE ret = << TRUE, "Valid" >>

\* 'a@mailinator.com' has been classified a disposable email
C12_Witness ==
    /\ call = "validate_email_format" /\ ncalls = 1
    /\ args.email = << "a","@","m","a","i","l","i","n","a","t","o","r",".","c","o","m" >>
    /\ ret = << FALSE, "Disposable Email" >>

-----------------------------------------------------------------------------
(* clean_phone_number applied to a drawn phone *)

\* phones of a prefix and a body: ten digits plain and punctuated, nine
\* digits, three, none, a '+' inside; the missing phone and one without digits
PhoneArgs ==
    LET prefixes == { << >>, << "+" >>, << "+","1" >>, << "1" >>, << "(" >>, << "+","+" >> }
        bodies == { << "2","0","2","5","5","5","0","1","0","0" >>,
                    << "2","0","2","-","5","5","5","-","0","1","0","0" >>,
                    << "1","0","2","5","5","5","0","1","0","0" >>,
                    << "2","0","2","5","5","5","0","1","0","0","0" >>,
                    << "1","2","3","4","5","6","7","8","9" >>,
                    << "1","2","3","4","+","5","6","7","8","9" >>,
                    << "5","5","5" >>, << >> }
    IN  { p \o b : p \in prefixes, b \in bodies }
            \cup { << " " >> \o b \o << " " >> : b \in bodies }
            \cup { NaN, << "n","/","a" >> }

InitPhone ==
    /\ PipelineIdle
    /\ NotCalled
    /\ company_dict = NoDirectory
    /\ PHONENUMBERS_AVAILABLE \in BOOLEAN
    /\ EMAIL_VALIDATOR_AVAILABLE = FALSE
    /\ args \in [phone : PhoneArgs]

CallCleanPhoneNumber ==
    /\ stage = "idle" /\ call = "none"
    /\ call' = "clean_phone_number"
    /\ ncalls' = 1
    /\ ret' = clean_phone_number(args.phone)
    /\ UNCHANGED << pipeline_vars, module_vars, args, ret2 >>

NextPhone == CallCleanPhoneNumber

SpecPhone == InitPhone /\ [][NextPhone]_vars

\* the digits of a phone, in their order
digits_of(phone) == IF pd_isna(phone) THEN << >> ELSE SelectSeq(phone, IsDigit)

\* the phone keeps nothing when stripped to its digits and a leading '+'
empty_after_stripping(phone) ==
    pd_isna(phone) \/ \A k \in DOMAIN phone : ~IsDigit(phone[k]) /\ phone[k] # "+"

\* C13: without the phone library, clean_phone_number reports a phone valid
\* exactly when its digits, the '+' not counted, are ten or more; a phone with
\* nothing left after stripping is invalid with the empty cleaned value.
C13_ValidIffTenDigits ==
    (call = "clean_phone_number" /\ ncalls = 1 /\ ~PHONENUMBERS_AVAILABLE)
    => /\ ret[2] = (Len(digits_of(args.phone)) >= 10)
       /\ empty_after_stripping(args.phone) => ret = << << >>, FALSE >>

\* the rule of the fallback as the code has it: the '+' signs count
C13_ValidIffTenCharacters ==
    (call = "clean_phone_number" /\ ncalls = 1 /\ ~PHONENUMBERS_AVAILABLE)
    => /\ ret[2] = (~pd_isna(args.phone) /\ Len(SelectSeq(args.phone, IsPhoneChar)) >= 10)
       /\ empty_after_stripping(args.phone) => ret = << << >>, FALSE >>

-----------------------------------------------------------------------------
(* find_duplicates applied to a drawn table *)

\* a contact with the given names and email
person(first, last, email) ==
    record(first, last, Acme, email, NaN, NaN)

\* contacts sharing an email under different names, sharing names under
\* different emails, sharing a missing or empty email or an empty first name,
\* and one whose email differs from another's by its padding
DuplicateRows ==
    LET John == << "J","o","h","n" >>
        Jane == << "J","a","n","e" >>
        Smith == << "S","m","i","t","h" >>
        Lee == << "L","e","e" >>
    IN  { person(John, Smith, JohnSmithAtAcme),
          person(Jane, Lee, JohnSmithAtAcme),
          person(John, Smith, JSmithAtAcme),
          person(Jane, Smith, << " " >> \o JSmithAtAcme),
          person(NaN, Smith, NaN),
          person(NaN, Lee, NaN),
          person(<< >>, Lee, << >>),
          person(<< >>, Smith, John1AtAcme) }

\* the tables of at most MaxRows rows
DuplicateTables == UNION { [1..n -> DuplicateRows] : n \in 0..MaxRows }

InitDuplicates ==
    /\ PipelineIdle
    /\ NotCalled
    /\ NoLibraries
    /\ company_dict = NoDirectory
    /\ args \in [df : DuplicateTables]

CallFindDuplicates ==
    /\ stage = "idle" /\ call = "none"
    /\ call' = "find_duplicates"
    /\ ncalls' = 1
    /\ ret' = find_duplicates(args.df)
    /\ UNCHANGED << pipeline_vars, module_vars, args, ret2 >>

NextDuplicates == CallFindDuplicates

SpecDuplicates == InitDuplicates /\ [][NextDuplicates]_vars

\* two rows have the same trimmed email, and it is not missing or empty
share_email(r, s) == trimmed(r["Email"]) # << >> /\ trimmed(r["Email"]) = trimmed(s["Email"])

\* two rows have the same first and last name, neither part missing or empty
share_names(r, s) ==
    /\ trimmed(r["First Name"]) # << >> /\ trimmed(r["Last Name"]) # << >>
    /\ r["First Name"] = s["First Name"] /\ r["Last Name"] = s["Last Name"]

\* C14: find_duplicates returns exactly the rows for which another row has the
\* same trimmed email or the same pair of non-empty first and last name; rows
\* that share only a missing or empty email, or an empty name part, are not
\* returned.
C14_ExactlyTheDuplicates ==
    (call = "find_duplicates" /\ ncalls = 1)
    => ret = { k \in DOMAIN args.df :
                 \E j \in DOMAIN args.df :
                     j # k /\ (share_email(args.df[k], args.df[j])
                                  \/ share_names(args.df[k], args.df[j])) }

\* the part of C14 the code keeps: every row that shares a non-missing email,
\* exactly as written, or both non-empty names with another row is returned
C14_DuplicatesReturned ==
    (call = "find_duplicates" /\ ncalls = 1)
    => \A k \in DOMAIN args.df : \A j \in DOMAIN args.df :
           (j # k /\ (share_names(args.df[k], args.df[j])
                         \/ (share_email(args.df[k], args.df[j])
                                /\ args.df[k]["Email"] = args.df[j]["Email"])))
           => k \in ret

-----------------------------------------------------------------------------
(* The change flags and the percentage of a finished clean_data *)

\* clean_data has returned
clean_data_returned == stage \in { "Scored", "DuplicatesRemoved", "Finalized" }

\* whether the options have the first loop clean the field
cleaning_enabled(field) ==
    IF field = "First Name" THEN options.clean_names
    ELSE IF field = "Last Name" THEN options.clean_names \/ options.infer_last_name
    ELSE IF field = "Company" THEN options.clean_company
    ELSE IF field = "Phone" THEN options.clean_phone
    ELSE IF field = "Job Title" THEN options.clean_job_title
    ELSE FALSE

\* C15: after clean_data the changed flag of a record and a normalized field
\* (First Name, Last Name, Company, Phone, Job Title) is true exactly when the
\* normalized value differs from the trimmed original; the flags of fields
\* whose cleaning is disabled and of the Email column are false.
C15_FlagIffValueDiffers ==
    clean_data_returned
    => \A i \in DOMAIN changed_mask : \A c \in Columns :
           changed_mask[i][c] =
               (/\ cleaning_enabled(c)
                /\ computed_value(df[i], c, options) # trimmed(df[i][c]))

\* a run has returned with the flag of a cleaned last name set and the flag
\* of an unchanged first name, cleaning enabled, not set
C15_Witness ==
    /\ clean_data_returned
    /\ options.clean_names
    /\ \E i \in DOMAIN changed_mask :
           /\ changed_mask[i]["Last Name"] /\ ~changed_mask[i]["First Name"]
           /\ cleaned_df[i]["Last Name"] # df[i]["Last Name"]
           /\ trimmed(df[i]["First Name"]) # << >>

-----------------------------------------------------------------------------
(* clean_data when one call of a normalizer raises an unexpected error: the
   run draws the normalizer that fails and the row on which it fails *)

Normalizers ==
    { "clean_first_name", "clean_last_name", "infer_last_from_email", "clean_company",
      "clean_phone_number", "clean_job_title" }

\* whether the body of the first loop calls the normalizer on the row
calls_normalizer(fn, row, opts) ==
    IF fn = "clean_first_name" THEN opts.clean_names
    ELSE IF fn = "clean_last_name"
         THEN IF trimmed(row["Last Name"]) # << >> THEN opts.clean_names
              ELSE opts.infer_last_name
                      /\ infer_last_from_email(first_of(row, opts), trimmed(row["Email"])) # << >>
    ELSE IF fn = "infer_last_from_email"
         THEN trimmed(row["Last Name"]) = << >> /\ opts.infer_last_name
    ELSE IF fn = "clean_company" THEN opts.clean_company
    ELSE IF fn = "clean_phone_number" THEN opts.clean_phone
    ELSE opts.clean_job_title

InitFaulty ==
    /\ df \in Tables
    /\ options = AllOn
    /\ company_dict = NoDirectory
    /\ NoLibraries
    /\ cleaned_df = df
    /\ changed_mask = [i \in DOMAIN df |-> [c \in Columns |-> FALSE]]
    /\ changes = 0
    /\ stage = "Loaded"
    /\ cursor = 0
    /\ company_patterns = NoPatterns
    /\ quality_scores = << >>
    /\ pattern_match_info = << >>
    /\ email_validation_results = << >>
    /\ percent_cleaned = << 0, 1 >>
    /\ args \in [raises : Normalizers, row : 1..2]
    /\ NotCalled

\* one turn of the first loop.  Only the call of clean_company stands in a
\* try block, whose handler goes on with the trimmed original; an error of any
\* other normalizer leaves clean_data
NormalizeRowOrRaise ==
    /\ stage = "Loaded" /\ cursor < Len(df)
    /\ LET i == cursor + 1
           fails == args.row = i /\ calls_normalizer(args.raises, df[i], options)
           opts == IF fails /\ args.raises = "clean_company"
                   THEN [options EXCEPT !.clean_company = FALSE]
                   ELSE options
           written == written_columns(df[i], opts)
       IN  IF fails /\ args.raises # "clean_company"
           THEN /\ stage' = "Raised"
                /\ UNCHANGED << cleaned_df, changed_mask, changes, email_validation_results,
                                cursor >>
           ELSE /\ cleaned_df' = [cleaned_df EXCEPT ![i] = cleaned_row(df[i], opts)]
                /\ changed_mask' = [changed_mask EXCEPT ![i] = [c \in Columns |-> c \in written]]
                /\ changes' = changes + Cardinality(written)
                /\ email_validation_results' =
                       email_validation_results \o email_validation_entry(i, df[i], options)
                /\ cursor' = i
                /\ UNCHANGED stage
    /\ UNCHANGED << df, options, company_patterns, quality_scores,
                    pattern_match_info, percent_cleaned, module_vars, call_vars >>

NextFaulty ==
    \/ NormalizeRowOrRaise
    \/ EndFirstPass
    \/ AnalyzePatterns
    \/ ScoreRow
    \/ EndSecondPass
    \/ RemoveDuplicates
    \/ Finalize

SpecFaulty == InitFaulty /\ [][NextFaulty]_vars

\* the field a normalizer computes
field_of(fn) ==
    IF fn = "clean_first_name" THEN "First Name"
    ELSE IF fn \in { "clean_last_name", "infer_last_from_email" } THEN "Last Name"
    ELSE IF fn = "clean_company" THEN "Company"
    ELSE IF fn = "clean_phone_number" THEN "Phone"
    ELSE "Job Title"

\* the turn of the first loop on the row where the normalizer fails
turn_with_error ==
    /\ stage = "Loaded" /\ cursor + 1 = args.row /\ cursor < Len(df)
    /\ calls_normalizer(args.raises, df[cursor + 1], options)

\* C16: when the normalization of one field of a record raises, clean_data
\* keeps the original value of that field, goes on with the other fields of
\* the record and with the other records, and returns instead of raising.
C16_FieldErrorIsolated ==
    [][turn_with_error
          => /\ stage' = "Loaded" /\ cursor' = cursor + 1
             /\ \A c \in Columns :
                    cleaned_df'[cursor + 1][c] =
                        IF c = field_of(args.raises) THEN df[cursor + 1][c]
                        ELSE cleaned_row(df[cursor + 1], options)[c]]_vars

\* the part of C16 the code keeps: an error of clean_company is isolated
C16_CompanyErrorIsolated ==
    [][(turn_with_error /\ args.raises = "clean_company")
          => /\ stage' = "Loaded" /\ cursor' = cursor + 1
             /\ \A c \in Columns :
                    cleaned_df'[cursor + 1][c] =
                        IF c = "Company" THEN df[cursor + 1][c]
                        ELSE cleaned_row(df[cursor + 1], options)[c]]_vars

-----------------------------------------------------------------------------
(* split_into_lists_by_company, called on its own *)

\* the largest value of the max_lists slider that is tried
MaxLists == 3

\* the tables split_into_lists_by_company is called on: the rows that are left
\* of at most MaxRows rows keep their indices, and the table has a Company
\* column, with or without missing cells, or none
SplitTables ==
    UNION { [kept -> { [Company |-> c] : c \in { Acme, Beta, NaN } }] \cup [kept -> { [Email |-> NaN] }] :
              kept \in SUBSET (1..MaxRows) }

InitSplit ==
    /\ PipelineIdle
    /\ NotCalled
    /\ NoLibraries
    /\ company_dict = NoDirectory
    /\ args \in [df : SplitTables, max_lists : 1..MaxLists, nan_is_one_object : BOOLEAN]

CallSplitIntoListsByCompany ==
    /\ stage = "idle" /\ call = "none"
    /\ call' = "split_into_lists_by_company"
    /\ ncalls' = 1
    /\ ret' \in split_into_lists_by_company(args.df, args.max_lists, args.nan_is_one_object)
    /\ UNCHANGED << pipeline_vars, module_vars, args, ret2 >>

NextSplit == CallSplitIntoListsByCompany

SpecSplit == InitSplit /\ [][NextSplit]_vars

\* split_into_lists_by_company has returned the lists of a table that has rows
\* and a Company column
split_by_company ==
    /\ call = "split_into_lists_by_company" /\ ncalls = 1
    /\ DOMAIN args.df # { }
    /\ \A idx \in DOMAIN args.df : "Company" \in DOMAIN args.df[idx]

\* the company values of the table, the missing cell not being one
companies_present ==
    { args.df[idx]["Company"] : idx \in DOMAIN args.df } \ { NaN }

\* the number of buckets the function allocates
buckets_allocated ==
    num_lists(company_groups(args.df, args.nan_is_one_object), args.max_lists)

\* the number of records of a company in bucket b of the allocated buckets
records_in_bucket(company, b) ==
    IF b \in DOMAIN ret
    THEN Cardinality({ k \in DOMAIN ret[b] : args.df[ret[b][k]]["Company"] = company })
    ELSE 0

\* C17: with K buckets allocated, the records of one company are dealt out
\* round-robin: the numbers of its records in any two buckets differ by at
\* most one, whatever the shuffle.
C17_CompanySpreadEvenly ==
    split_by_company
    => \A company \in companies_present : \A a, b \in 1..buckets_allocated :
           records_in_bucket(company, a) <= records_in_bucket(company, b) + 1

\* a company has one record more in one of several buckets than in another
C17_Witness ==
    /\ split_by_company
    /\ Len(ret) >= 2
    /\ \E company \in companies_present : \E a, b \in DOMAIN ret :
           /\ records_in_bucket(company, a) = 2
           /\ records_in_bucket(company, b) = 1

\* the larger of two numbers
larger(a, b) == IF a >= b THEN a ELSE b

\* the smaller of two numbers
smaller(a, b) == IF a <= b THEN a ELSE b

\* the number of records of a company
records_of(company) ==
    Cardinality({ idx \in DOMAIN args.df : args.df[idx]["Company"] = company })

\* the number of records of the largest company, 0 when no company is present
largest_company ==
    IF companies_present = { } THEN 0
    ELSE CHOOSE n \in { records_of(c) : c \in companies_present } :
             \A c \in companies_present : records_of(c) <= n

\* the number of records whose company is missing
records_without_company ==
    Cardinality({ idx \in DOMAIN args.df : pd_isna(args.df[idx]["Company"]) })

\* C18 as stated: for a table with rows and a Company column, the number of
\* buckets returned is min(max_lists, number of records of the largest
\* company), whether the records without a company count as one more company
\* or as none.
C18_BucketsByLargestCompany ==
    split_by_company
    => \/ Len(ret) = smaller(args.max_lists, largest_company)
       \/ Len(ret) = smaller(args.max_lists, larger(largest_company, records_without_company))

\* the size of the largest group of records filed under one key: the records
\* of a company share a key, and the records without a company share one key
\* or have a key each
largest_key_group ==
    larger(largest_company,
           IF args.nan_is_one_object THEN records_without_company
           ELSE smaller(1, records_without_company))

\* C18: for a table with rows and a Company column, the number of buckets
\* returned is min(max_lists, size of the largest group of records filed under
\* one key), never more than max_lists.
C18_BucketsByLargestKeyGroup ==
    split_by_company
    => /\ Len(ret) = smaller(args.max_lists, largest_key_group)
       /\ Len(ret) <= args.max_lists

\* fewer buckets than asked for are returned, as many as the records without a
\* company, which outnumber those of every company
C18_Witness ==
    /\ split_by_company
    /\ companies_present # { }
    /\ records_without_company > largest_company
    /\ Len(ret) = records_without_company
    /\ Len(ret) < args.max_lists

\* the places of the returned lists that hold a record index
places_of(idx) ==
    { place \in (DOMAIN ret) \X (1..MaxRows) :
        place[2] \in DOMAIN ret[place[1]] /\ ret[place[1]][place[2]] = idx }

\* the returned lists are a partition of the record indices of the table into
\* at most max_lists non-empty buckets
partitions_the_records ==
    /\ \A b \in DOMAIN ret : ret[b] # << >>
    /\ Len(ret) <= args.max_lists
    /\ \A idx \in DOMAIN args.df : Cardinality(places_of(idx)) = 1
    /\ \A b \in DOMAIN ret : \A k \in DOMAIN ret[b] : ret[b][k] \in DOMAIN args.df

\* C20 as stated: whatever the table and the outcome of the shuffles, the
\* returned lists are a partition of the record indices into at most
\* max_lists buckets, none of them empty.
C20_PartitionAlways ==
    (call = "split_into_lists_by_company" /\ ncalls = 1) => partitions_the_records

\* C20: for a table with rows, whatever the outcome of the shuffles, the
\* returned lists are a partition of the record indices into at most
\* max_lists buckets, none of them empty; for a table without rows a single
\* empty bucket is returned.
C20_PartitionUnlessEmpty ==
    (call = "split_into_lists_by_company" /\ ncalls = 1)
    => IF DOMAIN args.df = { } THEN ret = << << >> >> ELSE partitions_the_records

\* a table whose indices have a gap is split into two buckets, and the shuffle
\* has put the later record of a company into the first bucket
C20_Witness ==
    /\ split_by_company
    /\ DOMAIN args.df = { 1, 3 }
    /\ args.df[1]["Company"] = args.df[3]["Company"]
    /\ ret = << << 3 >>, << 1 >> >>

-----------------------------------------------------------------------------
(* the percentage clean_data returns *)

NormalizedFields == { "First Name", "Last Name", "Company", "Phone", "Job Title" }

\* the number of pairs of a record and a field that are flagged changed
changed_field_count ==
    Cardinality({ pair \in (DOMAIN changed_mask) \X NormalizedFields :
                    changed_mask[pair[1]][pair[2]] })

\* the number of pairs of a record and a field subjected to normalization
total_field_count_considered ==
    Len(df) * Cardinality({ field \in NormalizedFields : cleaning_enabled(field) })

\* C19: the percentage clean_data returns is changed_field_count /
\* total_field_count_considered * 100, hence between 0 and 100, and it is 0
\* for an empty dataset.
C19_PercentOfFieldsChanged ==
    stage = "Scored"
    => IF total_field_count_considered = 0
       THEN percent_cleaned[1] = 0
       ELSE /\ percent_cleaned[1] * total_field_count_considered
                 = changed_field_count * 100 * percent_cleaned[2]
            /\ 0 <= percent_cleaned[1]
            /\ percent_cleaned[1] <= 100 * percent_cleaned[2]

\* what the code returns: 100 times the changed fields per record, which is 0
\* for an empty dataset and exceeds 100 when the records have more than one
\* changed field each on average
C19_PercentOfFieldsPerRecord ==
    stage = "Scored"
    => percent_cleaned = IF Len(df) > 0 THEN << changed_field_count * 100, Len(df) >>
                         ELSE << 0, 1 >>

\* the percentage clean_data returns is at most 100
C19_AtMost100 ==
    stage = "Scored" => percent_cleaned[1] <= 100 * percent_cleaned[2]


-----------------------------------------------------------------------------
(* The pattern analysis and the scoring pass of one run *)

JaneLee(company, email) ==
    record(<< "J","a","n","e" >>, << "L","e","e" >>, company, email, NaN, NaN)

\* records of one company whose emails follow two forms, are disposable, blank
\* or missing, and a record of another company
AccountingRecords ==
    { record(<< "J","o","h","n" >>, << "S","m","i","t","h" >>, Acmes, JohnSmithAtAcme, NaN, NaN),
      record(<< "J","o" >>, << "S","m","i","t","h" >>, Acmes, JSmithAtAcme, NaN, NaN),
      JaneLee(Acmes, AtMailinator),
      JaneLee(Acmes, << " " >>),
      JaneLee(Acmes, NaN),
      JaneLee(Beta, JohnSmithAtAcme) }

AccountingTables == UNION { [1..n -> AccountingRecords] : n \in 0..MaxRecords }

InitAccounting ==
    /\ df \in AccountingTables
    /\ options = AllOn
    /\ company_dict = NoDirectory
    /\ NoLibraries
    /\ cleaned_df = df
    /\ changed_mask = [i \in DOMAIN df |-> [c \in Columns |-> FALSE]]
    /\ changes = 0
    /\ stage = "Loaded"
    /\ cursor = 0
    /\ company_patterns = NoPatterns
    /\ quality_scores = << >>
    /\ pattern_match_info = << >>
    /\ email_validation_results = << >>
    /\ percent_cleaned = << 0, 1 >>
    /\ args = << >>
    /\ NotCalled

SpecAccounting == InitAccounting /\ [][Next]_vars

\* clean_data has returned from a run with pattern checking and scoring on
scored_with_patterns ==
    /\ stage = "Scored"
    /\ options.check_company_email_pattern /\ options.calculate_quality_score

\* the adjustment the score of record i has received
adjustment_of(i) ==
    CHOOSE a \in { -10, 0, 10 } :
        /\ a = email_bonus_of(cleaned_df[i], company_patterns, options.check_company_email_pattern)
        /\ quality_scores[i] = clamp(normalize_score(base_score_of(cleaned_df[i]) + a))

\* the records of a company
records_at(company) == { i \in DOMAIN cleaned_df : cleaned_df[i]["Company"] = company }

\* the email of record i is missing, blank or not accepted as valid
email_missing_or_invalid(i) ==
    \/ pd_isna(cleaned_df[i]["Email"])
    \/ trimmed(cleaned_df[i]["Email"]) = << >>
    \/ ~validate_email_format(cleaned_df[i]["Email"])[1]

-----------------------------------------------------------------------------
(* The duplicate handling of one run *)

\* contacts sharing an email under different names, sharing names under
\* different emails, without first name and email, and one whose email differs
\* from another's by its padding
RemovalRecords ==
    LET John == << "J","o","h","n" >>
        Jane == << "J","a","n","e" >>
        Smith == << "S","m","i","t","h" >>
        Lee == << "L","e","e" >>
    IN  { person(John, Smith, JohnSmithAtAcme),
          person(Jane, Lee, JohnSmithAtAcme),
          person(John, Smith, JSmithAtAcme),
          person(Jane, Smith, << " " >> \o JSmithAtAcme),
          person(NaN, Smith, NaN) }

RemovalTables == UNION { [1..n -> RemovalRecords] : n \in 0..MaxRecords }

InitRemoval ==
    /\ df \in RemovalTables
    /\ options = AllOn
    /\ company_dict = NoDirectory
    /\ NoLibraries
    /\ cleaned_df = df
    /\ changed_mask = [i \in DOMAIN df |-> [c \in Columns |-> FALSE]]
    /\ changes = 0
    /\ stage = "Loaded"
    /\ cursor = 0
    /\ company_patterns = NoPatterns
    /\ quality_scores = << >>
    /\ pattern_match_info = << >>
    /\ email_validation_results = << >>
    /\ percent_cleaned = << 0, 1 >>
    /\ args = << >>
    /\ NotCalled

SpecRemoval == InitRemoval /\ [][Next]_vars

\* two records have the same Email cell or the same First Name and Last Name
\* cells, as the cells are stored; two missing cells are the same
shares_key(r, s) ==
    \/ r["Email"] = s["Email"]
    \/ r["First Name"] = s["First Name"] /\ r["Last Name"] = s["Last Name"]

\* the records of a table that share a key with another of its records
in_duplicate_group(table) ==
    { i \in DOMAIN table : \E j \in DOMAIN table : j # i /\ shares_key(table[i], table[j]) }

\* C22: with remove_duplicates on, the duplicate handling removes every record
\* that shares its email or its pair of names with another record, the first
\* of each group included, and nothing else: of the remaining records no two
\* share an email or a pair of names, none shared one with a removed record,
\* and the changed flags are kept for exactly the remaining records.
C22_WholeGroupsDropped ==
    [][(stage = "Scored" /\ stage' = "DuplicatesRemoved")
       => /\ options.remove_duplicates
          /\ DOMAIN cleaned_df' = (DOMAIN cleaned_df) \ in_duplicate_group(cleaned_df)
          /\ \A i \in DOMAIN cleaned_df' : cleaned_df'[i] = cleaned_df[i]
          /\ \A i, j \in DOMAIN cleaned_df' :
                 i # j => ~shares_key(cleaned_df'[i], cleaned_df'[j])
          /\ \A i \in DOMAIN cleaned_df' : \A j \in (DOMAIN cleaned_df) \ { i } :
                 ~shares_key(cleaned_df[i], cleaned_df[j])
          /\ DOMAIN changed_mask' = DOMAIN cleaned_df'
          /\ \A i \in DOMAIN changed_mask' : changed_mask'[i] = changed_mask[i]]_vars

\* two records with the same names and different emails have both been
\* removed, and the third record and its flags are what is left
C22_Witness ==
    /\ stage = "DuplicatesRemoved"
    /\ Len(df) = 3
    /\ df[1]["First Name"] = df[2]["First Name"] /\ df[1]["Last Name"] = df[2]["Last Name"]
    /\ df[1]["Email"] # df[2]["Email"]
    /\ DOMAIN cleaned_df = { 3 }
    /\ DOMAIN changed_mask = { 3 }

=============================================================================
